---- MODULE Spec2Model ----
(***************************************************************************)
(* Model of the incremental scan core of indu: the cache store             *)
(* (src/src/dir_cache.c), the cache lock (src/src/dir_cache_lock.c) and    *)
(* the scanner (src/src/dir_scan.c).                                       *)
(*                                                                         *)
(* Strings (paths, names, encoded JSON strings) are sequences of byte      *)
(* values.  Flags are sets of flag names.  A JSON info object is the       *)
(* sequence of its fields in the order they appear in the file; numbers    *)
(* are kept as their decimal digits and strings as their encoded bytes.    *)
(***************************************************************************)
EXTENDS Integers, Sequences, FiniteSets, TLC

VARIABLES
  cache_table,   \* dir_cache.c: the hash table, path -> position in entry_list
  entry_list,    \* dir_cache.c: every cache_entry ever created and not yet freed
  disk,          \* the cache file: NoFile or a document
  pc,            \* position of the single process of Spec in its life cycle
  last,          \* the last call of the cache store API and what it returned
  out,           \* the item events the last dir_cache_replay sent to the sink
  saved,         \* history: the used entries of the index at the last save
  name_in,       \* SpecStr: a name
  name_enc,      \* SpecStr: what output_string wrote for it
  name_dec,      \* SpecStr: what parse_string read back
  fs,            \* SpecScan: the scanned tree (what varies of it)
  runs,          \* SpecScan: history, one record per finished process()
  flocks,        \* the kernel's flock state of the lock file, per process
  procs,         \* SpecLock: dir_cache_lock.c's variables and the position
                 \* in cache_lock_acquire, per process
  lock_body,     \* SpecLock: the content of the lock file
  clock,         \* SpecLock: time(NULL), and how often it has advanced
  peak,          \* SpecLock: history, the most SHARED holders seen at once
  wait,          \* SpecWait: the part of the current second that has passed,
                 \* retry_delay, and what the calls of the waiting process did
  files,         \* SpecSave: the cache file and the temp files of the savers
  sv,            \* SpecSave: each process's position in main(): its load,
                 \* its scan, its save, and its index
  committed      \* SpecSave: history, the last document renamed into place

indexVars == <<cache_table, entry_list, disk, pc, last, out, saved>>
strVars == <<name_in, name_enc, name_dec>>
scanVars == <<fs, runs>>
lockVars == <<flocks, procs, lock_body, clock, peak, wait>>
saveVars == <<files, sv, committed>>
vars == <<indexVars, strVars, scanVars, lockVars, saveVars>>

-----------------------------------------------------------------------------
(* Bounds of the model *)

MaxEntries == 3
MaxDepth == 4
MaxSaves == 1
MaxStrLen == 2
MaxRuns == 2
MaxMut == 1
MaxProcs == 2
MaxTicks == 1
MaxCalls == 2

-----------------------------------------------------------------------------
(* Bytes and strings *)

SLASH == 47

\* "/r", "/r/a", "/r/a/b"
PathR == <<SLASH, 114>>
NameA == <<97>>
NameB == <<98>>
NameF == <<102>>
NameG == <<103>>

\* strcpy(parent); if parent does not end in '/', strcat("/"); strcat(name)
JoinPath(parent, name) ==
  IF Len(parent) > 0 /\ parent[Len(parent)] # SLASH
  THEN parent \o <<SLASH>> \o name
  ELSE parent \o name

PathA == JoinPath(PathR, NameA)
PathB == JoinPath(PathA, NameB)

-----------------------------------------------------------------------------
(* struct cache_child and struct cache_entry *)

cache_child(name, flags, size, asize, ino, dev, mtime, uid, gid, mode, nlink) ==
  [name |-> name, flags |-> flags, size |-> size, asize |-> asize,
   ino |-> ino, dev |-> dev, mtime |-> mtime, uid |-> uid, gid |-> gid,
   mode |-> mode, nlink |-> nlink, children |-> <<>>]

CopyChildShallow_deep(src) == src

\* The copy loops of dir_cache_store and build_cache_entries: every field but
\* the nested children, which are set to NULL / 0.
CopyChildShallow(src) ==
  [name |-> src.name, flags |-> src.flags, size |-> src.size,
   asize |-> src.asize, ino |-> src.ino, dev |-> src.dev, mtime |-> src.mtime,
   uid |-> src.uid, gid |-> src.gid, mode |-> src.mode, nlink |-> src.nlink,
   children |-> <<>>]

CopyChildren(children) ==
  [i \in 1..Len(children) |-> CopyChildShallow(children[i])]

NoExt == [flags |-> {}, mtime |-> 0, uid |-> 0, gid |-> 0, mode |-> 0]

-----------------------------------------------------------------------------
(* dir_cache_lookup *)

LookupMiss(list) == [ret |-> 0, list |-> list]

dir_cache_lookup_nodev(tab, list, path, mtime, dev, ino) ==
  IF path \notin DOMAIN tab THEN LookupMiss(list)
  ELSE LET k == tab[path]
           entry == list[k]
       IN IF entry.mtime # mtime \/ entry.ino # ino
          THEN LookupMiss(list)
          ELSE [ret |-> k, list |-> [list EXCEPT ![k].used = TRUE]]

\* Returns the position of the entry (0 for NULL) and the entry list after
\* the call.
dir_cache_lookup(tab, list, path, mtime, dev, ino) ==
  IF path \notin DOMAIN tab THEN LookupMiss(list)
  ELSE LET k == tab[path]
           entry == list[k]
       IN IF entry.mtime # mtime \/ entry.dev # dev \/ entry.ino # ino
          THEN LookupMiss(list)
          ELSE [ret |-> k, list |-> [list EXCEPT ![k].used = TRUE]]

-----------------------------------------------------------------------------
(* dir_cache_store *)

NewEntry(path, d, ext, children) ==
  [path |-> path,
   mtime |-> IF ext # NoExt /\ "MTIME" \in ext.flags THEN ext.mtime ELSE 0,
   dev |-> d.dev, ino |-> d.ino, size |-> d.size, asize |-> d.asize,
   items |-> d.items, used |-> TRUE,
   children |-> CopyChildren(children)]

dir_cache_store_keepold(tab, list, path, d, ext, children) ==
  [tab |-> (path :> (Len(list) + 1)) @@ tab,
   list |-> Append(list, NewEntry(path, d, ext, children))]

\* The new entry is appended to the entry list; an entry already indexed
\* under path stays in the list with used = 0.
dir_cache_store(tab, list, path, d, ext, children) ==
  LET list1 == IF path \in DOMAIN tab
               THEN [list EXCEPT ![tab[path]].used = FALSE]
               ELSE list
  IN [tab |-> (path :> (Len(list) + 1)) @@ tab,
      list |-> Append(list1, NewEntry(path, d, ext, children))]

-----------------------------------------------------------------------------
(* JSON output helpers *)

HexDigit(n) == IF n < 10 THEN 48 + n ELSE 87 + n

\* One byte of output_string: the two-character escapes, \u00NN for the
\* other bytes <= 31 and for 127, the byte itself otherwise.
output_byte(c) ==
  CASE c = 10 -> <<92, 110>>
    [] c = 13 -> <<92, 114>>
    [] c = 8  -> <<92, 98>>
    [] c = 9  -> <<92, 116>>
    [] c = 12 -> <<92, 102>>
    [] c = 92 -> <<92, 92>>
    [] c = 34 -> <<92, 34>>
    [] OTHER  -> IF c <= 31 \/ c = 127
                 THEN <<92, 117, 48, 48, HexDigit(c \div 16), HexDigit(c % 16)>>
                 ELSE <<c>>

RECURSIVE output_string(_)
output_string(str) ==
  IF str = <<>> THEN <<>>
  ELSE output_byte(Head(str)) \o output_string(Tail(str))

\* output_int: the decimal digits of n (n >= 0)
RECURSIVE output_int(_)
output_int(n) ==
  IF n < 10 THEN <<48 + n>>
  ELSE output_int(n \div 10) \o <<48 + (n % 10)>>

output_int64(n) == IF n < 0 THEN <<45>> \o output_int(-n) ELSE output_int(n)

-----------------------------------------------------------------------------
(* JSON parsing helpers *)

Min(a, b) == IF a < b THEN a ELSE b

\* parse_string after the opening quote: s is the rest of the input, i the
\* read position, acc the bytes copied to dest so far.  A \u escape is
\* skipped: the 'u' and up to four more characters are consumed and nothing
\* is copied.
RECURSIVE parse_string_from(_, _, _)
parse_string_from(s, i, acc) ==
  IF i > Len(s) THEN [ok |-> FALSE, val |-> acc]
  ELSE IF s[i] = 34 THEN [ok |-> TRUE, val |-> acc]
  ELSE IF s[i] = 92 THEN
    IF i + 1 > Len(s) THEN [ok |-> FALSE, val |-> acc]
    ELSE LET e == s[i + 1] IN
      CASE e = 34  -> parse_string_from(s, i + 2, Append(acc, 34))
        [] e = 92  -> parse_string_from(s, i + 2, Append(acc, 92))
        [] e = 47  -> parse_string_from(s, i + 2, Append(acc, 47))
        [] e = 98  -> parse_string_from(s, i + 2, Append(acc, 8))
        [] e = 102 -> parse_string_from(s, i + 2, Append(acc, 12))
        [] e = 110 -> parse_string_from(s, i + 2, Append(acc, 10))
        [] e = 114 -> parse_string_from(s, i + 2, Append(acc, 13))
        [] e = 116 -> parse_string_from(s, i + 2, Append(acc, 9))
        [] e = 117 -> parse_string_from(s, Min(i + 6, Len(s) + 1), acc)
        [] OTHER   -> [ok |-> FALSE, val |-> acc]
  ELSE parse_string_from(s, i + 1, Append(acc, s[i]))

\* parse_string of a string token: enc is what stands between the quotes.
parse_string(enc) == parse_string_from(enc \o <<34>>, 1, <<>>)

IsDigit(c) == c >= 48 /\ c <= 57

RECURSIVE parse_digits(_, _, _)
parse_digits(s, i, val) ==
  IF i <= Len(s) /\ IsDigit(s[i])
  THEN parse_digits(s, i + 1, val * 10 + (s[i] - 48))
  ELSE val

\* parse_uint64: fails unless the token starts with a digit
parse_uint64(s) ==
  IF s = <<>> \/ ~IsDigit(s[1]) THEN [ok |-> FALSE, val |-> 0]
  ELSE [ok |-> TRUE, val |-> parse_digits(s, 1, 0)]

\* parse_int64: an optional '-' and then as parse_uint64
parse_int64(s) ==
  LET neg == s # <<>> /\ s[1] = 45
      t == IF neg THEN Tail(s) ELSE s
  IN IF t = <<>> \/ ~IsDigit(t[1]) THEN [ok |-> FALSE, val |-> 0]
     ELSE [ok |-> TRUE,
           val |-> IF neg THEN 0 - parse_digits(t, 1, 0) ELSE parse_digits(t, 1, 0)]

-----------------------------------------------------------------------------
(* The cache file.  An item is [dir, info, sub]: dir says whether it is    *)
(* wrapped in [ ], info is the sequence of the fields of its object and    *)
(* sub the items that follow the object inside the brackets.  A document   *)
(* is [major, recs, tail]: tail is "]" when the root array is closed and   *)
(* "eof" when the file ends before that.                                   *)

NoFile == [major |-> 0, recs |-> <<>>, tail |-> "none"]

NumField(key, digits) == [key |-> key, t |-> "num", v |-> digits]
StrField(key, enc) == [key |-> key, t |-> "str", v |-> enc]
TrueField(key) == [key |-> key, t |-> "true", v |-> <<>>]

Opt(cond, field) == IF cond THEN <<field>> ELSE <<>>

\* "pattern", "otherfs", "othfs", "kernfs", "frmlnk"
StrPattern == <<112, 97, 116, 116, 101, 114, 110>>
StrOtherfs == <<111, 116, 104, 101, 114, 102, 115>>
StrOthfs == <<111, 116, 104, 102, 115>>
StrKernfs == <<107, 101, 114, 110, 102, 115>>
StrFrmlnk == <<102, 114, 109, 108, 110, 107>>

ExclFlags == {"EXL", "OTHFS", "KERNFS", "FRMLNK"}

\* The object write_cache_child writes for a child: the name, then every
\* numeric field that is not zero, then the flags.
write_child_info(child) ==
  <<StrField("name", output_string(child.name))>>
  \o Opt(child.asize # 0, NumField("asize", output_int64(child.asize)))
  \o Opt(child.size # 0, NumField("dsize", output_int64(child.size)))
  \o Opt(child.dev # 0, NumField("dev", output_int(child.dev)))
  \o Opt(child.ino # 0, NumField("ino", output_int(child.ino)))
  \o Opt(child.mtime # 0, NumField("mtime", output_int(child.mtime)))
  \o Opt(child.uid # 0, NumField("uid", output_int(child.uid)))
  \o Opt(child.gid # 0, NumField("gid", output_int(child.gid)))
  \o Opt(child.mode # 0, NumField("mode", output_int(child.mode)))
  \o (IF child.nlink > 1
      THEN <<TrueField("hlnkc"), NumField("nlink", output_int(child.nlink))>>
      ELSE <<>>)
  \o Opt("ERR" \in child.flags, TrueField("read_error"))
  \o Opt(child.flags \cap ({"DIR", "FILE", "ERR"} \cup ExclFlags) = {},
         TrueField("notreg"))
  \o (IF "EXL" \in child.flags THEN <<StrField("excluded", StrPattern)>>
      ELSE IF "OTHFS" \in child.flags THEN <<StrField("excluded", StrOtherfs)>>
      ELSE IF "KERNFS" \in child.flags THEN <<StrField("excluded", StrKernfs)>>
      ELSE IF "FRMLNK" \in child.flags THEN <<StrField("excluded", StrFrmlnk)>>
      ELSE <<>>)

RECURSIVE write_cache_child(_)
write_cache_child(child) ==
  [dir |-> "DIR" \in child.flags,
   info |-> write_child_info(child),
   sub |-> [i \in 1..Len(child.children) |-> write_cache_child(child.children[i])]]

\* The record dir_cache_save writes for an entry: the object with the path
\* and the non-zero asize, dsize, dev, ino, mtime, then the children.
write_entry(entry) ==
  [dir |-> TRUE,
   info |-> <<StrField("name", output_string(entry.path))>>
            \o Opt(entry.asize # 0, NumField("asize", output_int64(entry.asize)))
            \o Opt(entry.size # 0, NumField("dsize", output_int64(entry.size)))
            \o Opt(entry.dev # 0, NumField("dev", output_int(entry.dev)))
            \o Opt(entry.ino # 0, NumField("ino", output_int(entry.ino)))
            \o Opt(entry.mtime # 0, NumField("mtime", output_int(entry.mtime))),
   sub |-> [i \in 1..Len(entry.children) |-> write_cache_child(entry.children[i])]]

-----------------------------------------------------------------------------
(* parse_item_info, parse_item, build_cache_entries *)

\* A name pointer that is NULL (no byte of a C string is 0)
NullName == <<0>>

ZeroChild(flags) ==
  [name |-> NullName, flags |-> flags, size |-> 0, asize |-> 0, ino |-> 0,
   dev |-> 0, mtime |-> 0, uid |-> 0, gid |-> 0, mode |-> 0, nlink |-> 0,
   children |-> <<>>]

Bad(child) == [ok |-> FALSE, child |-> child]
Good(child) == [ok |-> TRUE, child |-> child]

\* One "key": value pair of parse_item_info
parse_field(child, f) ==
  LET u == parse_uint64(f.v)
      n == parse_int64(f.v)
      str == parse_string(f.v)
      isnum == f.t = "num"
  IN CASE f.key = "name" ->
            IF f.t = "str" /\ str.ok THEN Good([child EXCEPT !.name = str.val])
            ELSE Bad(child)
       [] f.key = "asize" ->
            IF isnum /\ n.ok THEN Good([child EXCEPT !.asize = n.val]) ELSE Bad(child)
       [] f.key = "dsize" ->
            IF isnum /\ n.ok THEN Good([child EXCEPT !.size = n.val]) ELSE Bad(child)
       [] f.key = "dev" ->
            IF isnum /\ u.ok THEN Good([child EXCEPT !.dev = u.val]) ELSE Bad(child)
       [] f.key = "ino" ->
            IF isnum /\ u.ok THEN Good([child EXCEPT !.ino = u.val]) ELSE Bad(child)
       [] f.key = "mtime" ->
            IF isnum /\ u.ok THEN Good([child EXCEPT !.mtime = u.val]) ELSE Bad(child)
       [] f.key = "uid" ->
            IF isnum /\ u.ok THEN Good([child EXCEPT !.uid = u.val]) ELSE Bad(child)
       [] f.key = "gid" ->
            IF isnum /\ u.ok THEN Good([child EXCEPT !.gid = u.val]) ELSE Bad(child)
       [] f.key = "mode" ->
            IF isnum /\ u.ok THEN Good([child EXCEPT !.mode = u.val]) ELSE Bad(child)
       [] f.key = "nlink" ->
            IF isnum /\ u.ok
            THEN Good([child EXCEPT !.nlink = u.val,
                                    !.flags = IF u.val > 1 THEN @ \cup {"HLNKC"} ELSE @])
            ELSE Bad(child)
       [] f.key = "hlnkc" ->
            Good([child EXCEPT !.flags = IF f.t = "true" THEN @ \cup {"HLNKC"} ELSE @])
       [] f.key = "read_error" ->
            Good([child EXCEPT !.flags = IF f.t = "true" THEN @ \cup {"ERR"} ELSE @])
       [] f.key = "excluded" ->
            IF f.t = "str" /\ str.ok
            THEN Good([child EXCEPT !.flags =
                   IF str.val = StrOtherfs \/ str.val = StrOthfs THEN @ \cup {"OTHFS"}
                   ELSE IF str.val = StrKernfs THEN @ \cup {"KERNFS"}
                   ELSE IF str.val = StrFrmlnk THEN @ \cup {"FRMLNK"}
                   ELSE @ \cup {"EXL"}])
            ELSE Bad(child)
       [] f.key = "notreg" ->
            Good([child EXCEPT !.flags = IF f.t = "true" THEN @ \ {"FILE"} ELSE @])
       [] OTHER -> Good(child)

RECURSIVE parse_fields(_, _, _)
parse_fields(fields, i, child) ==
  IF i > Len(fields) THEN Good(child)
  ELSE LET r == parse_field(child, fields[i])
       IN IF r.ok THEN parse_fields(fields, i + 1, r.child) ELSE r

\* child->dev = parent_dev, then the fields in file order
parse_item_info(info, child, parent_dev) ==
  parse_fields(info, 1, [child EXCEPT !.dev = parent_dev])

RECURSIVE parse_item(_, _)
RECURSIVE parse_items(_, _, _, _)

\* The items after the object of a directory, each parsed with the
\* directory's dev as parent_dev
parse_items(sub, i, dev, acc) ==
  IF i > Len(sub) THEN [ok |-> TRUE, children |-> acc]
  ELSE LET r == parse_item(sub[i], dev)
       IN IF r.ok THEN parse_items(sub, i + 1, dev, Append(acc, r.child))
          ELSE [ok |-> FALSE, children |-> acc]

parse_item(item, parent_dev) ==
  LET r == parse_item_info(item.info,
                           ZeroChild(IF item.dir THEN {"DIR"} ELSE {"FILE"}),
                           parent_dev)
  IN IF ~r.ok THEN r
     ELSE IF ~item.dir THEN r
     ELSE LET cs == parse_items(item.sub, 1, r.child.dev, <<>>)
          IN IF cs.ok THEN Good([r.child EXCEPT !.children = cs.children])
             ELSE Bad(r.child)

\* build_cache_entries(child, ""): an entry for a directory item that has a
\* name, with shallow copies of its children; kept unless the path is indexed
\* already (then the new entry is freed at once).
\* A load in which a later record replaces the entry of an earlier one
build_cache_entries_last(tab, list, child) ==
  IF child.name = NullName \/ "DIR" \notin child.flags
  THEN [tab |-> tab, list |-> list]
  ELSE [tab |-> [q \in DOMAIN tab \cup {child.name} |-> Len(list) + 1],
        list |-> Append(list,
                   [path |-> child.name, mtime |-> child.mtime, dev |-> child.dev,
                    ino |-> child.ino, size |-> child.size, asize |-> child.asize,
                    items |-> Len(child.children), used |-> FALSE,
                    children |-> <<>>])]

build_cache_entries(tab, list, child) ==
  IF child.name = NullName \/ "DIR" \notin child.flags \/ child.name \in DOMAIN tab
  THEN [tab |-> tab, list |-> list]
  ELSE [tab |-> (child.name :> (Len(list) + 1)) @@ tab,
        list |-> Append(list,
                   [path |-> child.name, mtime |-> child.mtime, dev |-> child.dev,
                    ino |-> child.ino, size |-> child.size, asize |-> child.asize,
                    items |-> Len(child.children), used |-> FALSE,
                    children |-> CopyChildren(child.children)])]

-----------------------------------------------------------------------------
(* dir_cache_load *)

RECURSIVE load_records(_, _, _, _)
load_records(doc, i, tab, list) ==
  IF i > Len(doc.recs)
  THEN [ret |-> IF doc.tail = "]" THEN 0 ELSE -1, tab |-> tab, list |-> list]
  ELSE LET r == parse_item(doc.recs[i], 0)
       IN IF ~r.ok THEN [ret |-> -1, tab |-> tab, list |-> list]
          ELSE LET b == build_cache_entries(tab, list, r.child)
               IN load_records(doc, i + 1, b.tab, b.list)

dir_cache_load_lenient(tab, list, doc, lock_ok) ==
  IF ~lock_ok \/ doc = NoFile THEN [ret |-> 0, tab |-> tab, list |-> list]
  ELSE [load_records(doc, 1, tab, list) EXCEPT !.ret = 0]

\* lock_ok: whether cache_lock_acquire(SHARED, 5) succeeded.  doc is what
\* fopen(cache_file) gives: NoFile when the file does not exist.
dir_cache_load(tab, list, doc, lock_ok) ==
  IF ~lock_ok THEN [ret |-> 0, tab |-> tab, list |-> list]
  ELSE IF doc = NoFile THEN [ret |-> 0, tab |-> tab, list |-> list]
  ELSE IF doc.major # 1 THEN [ret |-> -1, tab |-> tab, list |-> list]
  ELSE load_records(doc, 1, tab, list)

-----------------------------------------------------------------------------
(* dir_cache_save: the document *)

\* The records of the used entries of the table, in the order the loop over
\* the hash table's buckets meets their paths.
RECURSIVE save_records(_, _, _, _)
save_records(tab, list, order, i) ==
  IF i > Len(order) THEN <<>>
  ELSE LET entry == list[tab[order[i]]]
       IN (IF entry.used THEN <<write_entry(entry)>> ELSE <<>>)
          \o save_records(tab, list, order, i + 1)

\* A save that writes every entry of the table, used or not
save_document_all(tab, list, order) ==
  [major |-> 1,
   recs |-> [i \in 1..Len(order) |-> write_entry(list[tab[order[i]]])],
   tail |-> "]"]

save_document(tab, list, order) ==
  [major |-> 1, recs |-> save_records(tab, list, order, 1), tail |-> "]"]

\* The orders in which a hash table may hold the paths of tab
BucketOrders(tab) ==
  LET n == Cardinality(DOMAIN tab)
  IN {o \in [1..n -> DOMAIN tab] : \A i, j \in 1..n : i # j => o[i] # o[j]}

-----------------------------------------------------------------------------
(* dir_cache_replay *)

\* What the sink's item callback receives: an item (struct dir, name, ext,
\* nlink) or, with dir = NULL, the close of the current directory.
ItemEvent(d, name, ext, nlink, src) ==
  [kind |-> "item", flags |-> d.flags, size |-> d.size, asize |-> d.asize,
   ino |-> d.ino, dev |-> d.dev, items |-> d.items, name |-> name,
   ext |-> ext, nlink |-> nlink, src |-> src]

CloseEvent(src) == [kind |-> "close", src |-> src]

\* The struct dir and struct dir_ext dir_cache_replay_recursive fills from a
\* cached child: an extended field is set only when it is not zero.
ReplayDir(child) ==
  [flags |-> child.flags \cup
             (IF child.mtime # 0 \/ child.uid # 0 \/ child.gid # 0 \/ child.mode # 0
              THEN {"EXT"} ELSE {}),
   size |-> child.size, asize |-> child.asize, ino |-> child.ino,
   dev |-> child.dev, items |-> 0]

ReplayExt(child) ==
  [flags |-> (IF child.mtime # 0 THEN {"MTIME"} ELSE {})
             \cup (IF child.uid # 0 THEN {"UID"} ELSE {})
             \cup (IF child.gid # 0 THEN {"GID"} ELSE {})
             \cup (IF child.mode # 0 THEN {"MODE"} ELSE {}),
   mtime |-> child.mtime, uid |-> child.uid, gid |-> child.gid,
   mode |-> child.mode]

RECURSIVE dir_cache_replay_recursive(_, _, _, _, _)
RECURSIVE replay_children(_, _, _, _, _, _)

MarkUsed_not(list, k) == list

\* subentry->used = 1
MarkUsed(list, k) == [list EXCEPT ![k].used = TRUE]

\* st = [list, ev, overflow]: the entry list, the events sent so far, and
\* whether the recursion went deeper than the model follows it.
replay_children(tab, st, path, children, i, fuel) ==
  IF i > Len(children) THEN st
  ELSE replay_children(tab,
         dir_cache_replay_recursive(tab, st, path, children[i], fuel),
         path, children, i + 1, fuel)

dir_cache_replay_recursive(tab, st, parent_path, child, fuel) ==
  LET st1 == [st EXCEPT !.ev = Append(@, ItemEvent(ReplayDir(child), child.name,
                                                   ReplayExt(child), child.nlink,
                                                   "replay"))]
      child_path == JoinPath(parent_path, child.name)
  IN IF "DIR" \notin child.flags THEN st1
     ELSE LET st2 ==
                IF child_path \notin DOMAIN tab THEN st1
                ELSE IF fuel = 0 THEN [st1 EXCEPT !.overflow = TRUE]
                ELSE LET k == tab[child_path]
                     IN replay_children(tab,
                          [st1 EXCEPT !.list = MarkUsed(@, k)],
                          child_path, st1.list[k].children, 1, fuel - 1)
          IN [st2 EXCEPT !.ev = Append(@, CloseEvent("replay"))]

\* dir_cache_replay(entry), entry = list[k]
dir_cache_replay(tab, list, k) ==
  replay_children(tab, [list |-> list, ev |-> <<>>, overflow |-> FALSE],
                  list[k].path, list[k].children, 1, MaxDepth)

-----------------------------------------------------------------------------
(* The scanner: dir_scan.c *)

S_BLKSIZE == 512

NoFlags == {}
SkipFlags == {"ERR", "EXL", "OTHFS", "KERNFS", "FRMLNK"}

\* buf_dir, buf_ext and buf_nlink after the memset of dir_walk_ctx
ZeroBuf ==
  [flags |-> NoFlags, size |-> 0, asize |-> 0, ino |-> 0, dev |-> 0, items |-> 0,
   ext |-> NoExt, nlink |-> 0]

\* struct stat, as far as the scanner reads it
Stat(type, ino, dev, nlink, blocks, size, mode, mtime, uid, gid) ==
  [type |-> type, ino |-> ino, dev |-> dev, nlink |-> nlink, blocks |-> blocks,
   size |-> size, mode |-> mode, mtime |-> mtime, uid |-> uid, gid |-> gid]

stat_to_dir(buf, st, smfs, curdev) ==
  LET f1 == buf.flags \cup {"EXT"}
             \cup (IF st.type = "reg" THEN {"FILE"}
                   ELSE IF st.type = "dir" THEN {"DIR"} ELSE {})
             \cup (IF st.type # "dir" /\ st.nlink > 1 THEN {"HLNKC"} ELSE {})
             \cup (IF smfs /\ curdev # st.dev THEN {"OTHFS"} ELSE {})
      sized == f1 \cap {"OTHFS", "EXL", "KERNFS"} = {}
  IN [flags |-> f1,
      size |-> IF sized THEN st.blocks * S_BLKSIZE ELSE buf.size,
      asize |-> IF sized THEN st.size ELSE buf.asize,
      ino |-> st.ino, dev |-> st.dev, items |-> buf.items,
      ext |-> [flags |-> {"MTIME", "UID", "GID", "MODE"}, mtime |-> st.mtime,
               uid |-> st.uid, gid |-> st.gid, mode |-> st.mode],
      nlink |-> IF st.type # "dir" /\ st.nlink > 1 THEN st.nlink ELSE 0]

\* walk_context_add_child_from_saved: the cache_child made of the scratch
\* buffers as they are when the child is added
walk_context_add_child(name, buf) ==
  cache_child(name, buf.flags, buf.size, buf.asize, buf.ino, buf.dev,
              IF "MTIME" \in buf.ext.flags THEN buf.ext.mtime ELSE 0,
              IF "UID" \in buf.ext.flags THEN buf.ext.uid ELSE 0,
              IF "GID" \in buf.ext.flags THEN buf.ext.gid ELSE 0,
              IF "MODE" \in buf.ext.flags THEN buf.ext.mode ELSE 0,
              buf.nlink)

\* The struct dir part of the scratch buffer (what memcpy saves in
\* dir_scan_recurse and what dir_cache_store reads)
BufDir(buf) ==
  [flags |-> buf.flags, size |-> buf.size, asize |-> buf.asize, ino |-> buf.ino,
   dev |-> buf.dev, items |-> buf.items]

-----------------------------------------------------------------------------
(* Spec: one process calling the cache store as main() and the scanner do: *)
(* dir_cache_init, dir_cache_load, then lookups, stores and replays, then  *)
(* dir_cache_save and dir_cache_destroy; and again with the file left.     *)

EmptyTable == [x \in {} |-> 0]

StDir(ino, dev, mtime) == Stat("dir", ino, dev, 2, 8, 4096, 16877, mtime, 1000, 100)
StFile == Stat("reg", 12, 1, 1, 8, 1000, 33188, 5, 1000, 100)
StHard == Stat("reg", 15, 1, 2, 8, 2000, 33188, 5, 0, 0)
StLink == Stat("lnk", 16, 1, 1, 0, 7, 41471, 5, 1000, 100)

\* The scratch buffer of an entry the scanner has stat'ed
BufOf(st) == stat_to_dir(ZeroBuf, st, FALSE, 1)
\* ... of an entry that matched an exclusion pattern, whose lstat failed
BufExcluded == [ZeroBuf EXCEPT !.flags = {"EXL"}]
BufError == [ZeroBuf EXCEPT !.flags = {"ERR"}]

\* The children lists of the directories the scanner stores in Spec: "/r/a"
\* with a file and the directory b, "/r/a" with a hard-linked file and an
\* excluded entry, "/r/a/b" with a symlink whose name has a control byte.
ChildrenA1 ==
  <<walk_context_add_child(NameF, BufOf(StFile)),
    walk_context_add_child(NameB, BufOf(StDir(13, 2, 1)))>>
ChildrenA2 ==
  <<walk_context_add_child(NameG, BufOf(StHard)),
    walk_context_add_child(<<120>>, BufExcluded)>>
ChildrenB == <<walk_context_add_child(<<108, 1>>, BufOf(StLink))>>

\* The calls of dir_cache_store the scanner makes in Spec
\* A child that carries children of its own, as a caller of dir_cache_store
\* other than the scanner may pass it and as a file with nested directories
\* gives it
NestedChild ==
  [walk_context_add_child(NameB, BufOf(StDir(13, 2, 1)))
     EXCEPT !.children = <<walk_context_add_child(NameF, BufOf(StFile))>>]

StoreArgs ==
  { [path |-> PathA, st |-> StDir(11, 1, 3), children |-> <<NestedChild>>],
    [path |-> PathA, st |-> StDir(11, 1, 1), children |-> ChildrenA1],
    [path |-> PathA, st |-> StDir(11, 1, 2), children |-> ChildrenA2],
    [path |-> PathB, st |-> StDir(13, 2, 1), children |-> ChildrenB],
    [path |-> PathB, st |-> StDir(13, 2, 1), children |-> <<>>] }

\* The calls of dir_cache_lookup: the triples stored, and each with one of
\* mtime, dev, ino changed
LookupArgs ==
  { [path |-> a.path, mtime |-> a.st.mtime + t[1], dev |-> a.st.dev + t[2],
     ino |-> a.st.ino + t[3]] :
    a \in StoreArgs, t \in {<<0, 0, 0>>, <<1, 0, 0>>, <<0, 1, 0>>, <<0, 0, 1>>} }

NoCall == [op |-> "none", path |-> <<>>, mtime |-> 0, dev |-> 0, ino |-> 0, ret |-> 0]
Call(op, path, mtime, dev, ino, ret) ==
  [op |-> op, path |-> path, mtime |-> mtime, dev |-> dev, ino |-> ino, ret |-> ret]

\* What the round trip through the file is about: an entry without its used
\* flag and item count, its children as a set
EntryTuple(e) ==
  [path |-> e.path, mtime |-> e.mtime, dev |-> e.dev, ino |-> e.ino,
   size |-> e.size, asize |-> e.asize,
   children |-> {e.children[i] : i \in 1..Len(e.children)}]

IndexEntries(tab, list) == {list[tab[p]] : p \in DOMAIN tab}
UsedTuples(tab, list) == {EntryTuple(e) : e \in {x \in IndexEntries(tab, list) : x.used}}
AllTuples(tab, list) == {EntryTuple(e) : e \in IndexEntries(tab, list)}

NotSaved == [n |-> 0, used |-> {}]

\* A cache file whose record of "/r/a" has the directory b with its own
\* items nested in it
NestedDoc ==
  [major |-> 1,
   recs |-> <<write_entry([NewEntry(PathA, BufDir(BufOf(StDir(11, 1, 1))),
                                    BufOf(StDir(11, 1, 1)).ext, <<>>)
                             EXCEPT !.children = <<NestedChild>>])>>,
   tail |-> "]"]

\* Files that do not parse: another major version, a file that ends after
\* its first record, and a record whose dev is a string
BadMajorDoc == [NestedDoc EXCEPT !.major = 2]
TruncDoc == [NestedDoc EXCEPT !.tail = "eof"]
BadFieldDoc ==
  [major |-> 1,
   recs |-> <<[dir |-> TRUE, info |-> <<StrField("dev", <<>>)>>, sub |-> <<>>]>>,
   tail |-> "]"]
BadDocs == {BadMajorDoc, TruncDoc, BadFieldDoc}

InitDocs == {NoFile, NestedDoc} \cup BadDocs

NotYet == <<0>>
StrIdle ==
  /\ name_in = <<>> /\ name_enc = NotYet
  /\ name_dec = [ok |-> FALSE, val |-> NotYet]

NoTree == [x |-> "none"]
ScanIdle == fs = NoTree /\ runs = <<>>

NoBody == [pid |-> 0, ts |-> 0]
NoWait ==
  [us |-> 0, delay |-> 0, slept |-> 0, calls |-> 0, free |-> FALSE,
   excl |-> FALSE, old |-> NoBody, timedout |-> FALSE]
LockIdle ==
  /\ flocks = <<>> /\ procs = <<>> /\ lock_body = NoBody
  /\ clock = [now |-> 0, ticks |-> 0] /\ peak = 0
  /\ wait = NoWait

NoCommit == [doc |-> NoFile, by |-> 0]
SaveIdle == files = <<>> /\ sv = <<>> /\ committed = NoCommit

Init ==
  /\ StrIdle
  /\ ScanIdle
  /\ LockIdle
  /\ SaveIdle
  /\ cache_table = EmptyTable
  /\ entry_list = <<>>
  /\ disk \in InitDocs
  /\ pc = "start"
  /\ last = NoCall
  /\ out = <<>>
  /\ saved = NotSaved

\* dir_cache_init
CacheInit ==
  /\ pc = "start"
  /\ pc' = "init"
  /\ cache_table' = EmptyTable
  /\ last' = Call("init", <<>>, 0, 0, 0, 0)
  /\ UNCHANGED <<entry_list, disk, out, saved>>
  /\ UNCHANGED <<strVars, scanVars, lockVars, saveVars>>

\* dir_cache_load; lock_ok is the outcome of cache_lock_acquire(SHARED, 5)
Load ==
  /\ pc = "init"
  /\ \E lock_ok \in BOOLEAN :
       LET r == dir_cache_load(cache_table, entry_list, disk, lock_ok)
       IN /\ cache_table' = r.tab
          /\ entry_list' = r.list
          /\ last' = Call("load", <<>>, 0, 0, IF lock_ok THEN 1 ELSE 0, r.ret)
  /\ pc' = "scan"
  /\ UNCHANGED <<disk, out, saved>>
  /\ UNCHANGED <<strVars, scanVars, lockVars, saveVars>>

Lookup ==
  /\ pc = "scan"
  /\ \E a \in LookupArgs :
       LET r == dir_cache_lookup(cache_table, entry_list, a.path, a.mtime, a.dev, a.ino)
       IN /\ entry_list' = r.list
          /\ last' = Call("lookup", a.path, a.mtime, a.dev, a.ino, r.ret)
  /\ UNCHANGED <<cache_table, disk, pc, out, saved>>
  /\ UNCHANGED <<strVars, scanVars, lockVars, saveVars>>

Store ==
  /\ pc = "scan"
  /\ Len(entry_list) < MaxEntries
  /\ saved.n < MaxSaves
  /\ \E a \in StoreArgs :
       LET buf == BufOf(a.st)
           r == dir_cache_store(cache_table, entry_list, a.path, BufDir(buf),
                                buf.ext, a.children)
       IN /\ cache_table' = r.tab
          /\ entry_list' = r.list
          /\ last' = Call("store", a.path, a.st.mtime, a.st.dev, a.st.ino, Len(r.list))
  /\ UNCHANGED <<disk, pc, out, saved>>
  /\ UNCHANGED <<strVars, scanVars, lockVars, saveVars>>

\* dir_cache_replay of the entry the last lookup returned, as the scanner
\* calls it
Replay ==
  /\ pc = "scan"
  /\ last.op = "lookup" /\ last.ret # 0
  /\ LET r == dir_cache_replay(cache_table, entry_list, last.ret)
     IN /\ entry_list' = r.list
        /\ out' = r.ev
        /\ last' = Call("replay", last.path, 0, 0, 0, last.ret)
  /\ UNCHANGED <<cache_table, disk, pc, saved>>
  /\ UNCHANGED <<strVars, scanVars, lockVars, saveVars>>

\* dir_cache_save; lock_ok is the outcome of cache_lock_acquire(EXCLUSIVE, 10)
Save ==
  /\ pc = "scan"
  /\ saved.n < MaxSaves
  /\ \E lock_ok \in BOOLEAN, order \in BucketOrders(cache_table) :
       /\ disk' = IF lock_ok THEN save_document(cache_table, entry_list, order)
                  ELSE disk
       /\ saved' = IF lock_ok
                   THEN [n |-> saved.n + 1, used |-> UsedTuples(cache_table, entry_list)]
                   ELSE saved
       /\ last' = Call("save", <<>>, 0, 0, IF lock_ok THEN 1 ELSE 0, 0)
  /\ pc' = "saved"
  /\ UNCHANGED <<cache_table, entry_list, out>>
  /\ UNCHANGED <<strVars, scanVars, lockVars, saveVars>>

\* dir_cache_destroy
Destroy ==
  /\ pc = "saved"
  /\ pc' = "start"
  /\ cache_table' = EmptyTable
  /\ entry_list' = <<>>
  /\ out' = <<>>
  /\ last' = Call("destroy", <<>>, 0, 0, 0, 0)
  /\ UNCHANGED <<disk, saved>>
  /\ UNCHANGED <<strVars, scanVars, lockVars, saveVars>>

Next == CacheInit \/ Load \/ Lookup \/ Store \/ Replay \/ Save \/ Destroy

Spec == Init /\ [][Next]_vars

-----------------------------------------------------------------------------
(* Claims on the index *)

Referenced(tab, k) == \E p \in DOMAIN tab : tab[p] = k

\* What the index holds for the arguments of the last call, read before it
ArgsMatch(tab, list, c) ==
  /\ c.path \in DOMAIN tab
  /\ list[tab[c.path]].mtime = c.mtime
  /\ list[tab[c.path]].dev = c.dev
  /\ list[tab[c.path]].ino = c.ino

\* C1: dir_cache_lookup returns the entry indexed under path if and only if
\* there is one and its mtime, dev and ino all equal the arguments; after a
\* hit that entry has used = true and nothing else has changed; after a miss
\* nothing has changed at all.
C1_LookupContract ==
  [][last'.op = "lookup" =>
       /\ (last'.ret # 0) <=> ArgsMatch(cache_table, entry_list, last')
       /\ last'.ret # 0 =>
            /\ last'.ret = cache_table[last'.path]
            /\ entry_list'[last'.ret].used
            /\ entry_list' = [entry_list EXCEPT ![last'.ret].used = TRUE]
       /\ last'.ret = 0 => entry_list' = entry_list
       /\ cache_table' = cache_table
       /\ disk' = disk]_vars

\* A lookup that missed although an entry is indexed under the path and only
\* dev differs from the entry's triple
C1_Witness ==
  /\ last.op = "lookup" /\ last.ret = 0
  /\ last.path \in DOMAIN cache_table
  /\ LET e == entry_list[cache_table[last.path]]
     IN e.mtime = last.mtime /\ e.ino = last.ino /\ e.dev # last.dev

\* C10: after dir_cache_store(path, ...) the index maps path to the entry
\* just created, which has used = true and the triple given; the entry that
\* was indexed under path before has used = false; an entry no longer
\* indexed keeps used = false and is not indexed again, and stays in the
\* entry list until dir_cache_destroy.
C10_StoreReplaces ==
  [][/\ last'.op = "store" =>
          /\ Len(entry_list') = Len(entry_list) + 1
          /\ cache_table'[last'.path] = Len(entry_list')
          /\ \A p \in DOMAIN cache_table' \ {last'.path} :
               p \in DOMAIN cache_table /\ cache_table'[p] = cache_table[p]
          /\ LET e == entry_list'[Len(entry_list')]
             IN /\ e.used /\ e.path = last'.path
                /\ e.mtime = last'.mtime /\ e.dev = last'.dev /\ e.ino = last'.ino
          /\ last'.path \in DOMAIN cache_table =>
               /\ ~entry_list'[cache_table[last'.path]].used
               /\ ~Referenced(cache_table', cache_table[last'.path])
     /\ last'.op # "destroy" =>
          \A k \in 1..Len(entry_list) :
            /\ k <= Len(entry_list')
            /\ ~Referenced(cache_table, k) /\ pc = "scan" =>
                 /\ ~Referenced(cache_table', k)
                 /\ ~entry_list[k].used
                 /\ entry_list'[k] = entry_list[k]
     /\ last'.op = "save" /\ disk' # disk =>
          \A i \in 1..Len(disk'.recs) :
            \E p \in DOMAIN cache_table :
              /\ entry_list[cache_table[p]].used
              /\ disk'.recs[i] = write_entry(entry_list[cache_table[p]])]_vars

\* A store under a path that was indexed already: the entry it displaced is
\* still in the entry list, unused and no longer indexed
C10_Witness ==
  /\ last.op = "store"
  /\ \E k \in 1..Len(entry_list) :
       /\ ~Referenced(cache_table, k)
       /\ entry_list[k].path = last.path
       /\ ~entry_list[k].used
       /\ k < last.ret

\* C7: after dir_cache_save and then dir_cache_load of the same file into a
\* fresh store, the entries of the index (path, mtime, dev, ino, size, asize
\* and the children with all their fields) are exactly the entries that had
\* used = true when the file was saved.
C7_RoundTrip ==
  (pc = "scan" /\ last.op = "load" /\ last.ino = 1 /\ saved.n > 0)
    => AllTuples(cache_table, entry_list) = saved.used

\* C17: dir_cache_load returns 0 and leaves the index empty when the SHARED
\* lock was not acquired and when the cache file does not exist, and
\* returns -1 when the file does not parse (another major version, a
\* truncated file, a field of the wrong type).
C17_LoadResult ==
  (pc = "scan" /\ last.op = "load") =>
    /\ last.ino = 0 => (last.ret = 0 /\ entry_list = <<>> /\ cache_table = EmptyTable)
    /\ (last.ino = 1 /\ disk = NoFile) =>
         (last.ret = 0 /\ entry_list = <<>> /\ cache_table = EmptyTable)
    /\ (last.ino = 1 /\ disk \in BadDocs) => last.ret = -1

\* The load of the truncated file has failed under the lock
C17_Witness ==
  /\ pc = "scan" /\ last.op = "load" /\ last.ino = 1
  /\ disk = TruncDoc /\ last.ret = -1

\* The paths of the directory children of the entries at the paths
ChildPaths(tab, list, paths) ==
  UNION {{JoinPath(p, list[tab[p]].children[i].name) :
            i \in {j \in 1..Len(list[tab[p]].children) :
                     "DIR" \in list[tab[p]].children[j].flags}} :
         p \in paths \cap DOMAIN tab}

RECURSIVE ReachedFrom(_, _, _, _)
\* The paths reached from the paths by following directory children at
\* most n times
ReachedFrom(tab, list, paths, n) ==
  IF n = 0 THEN paths
  ELSE ReachedFrom(tab, list, paths \cup ChildPaths(tab, list, paths), n - 1)

\* The paths below the entry at path that the replay of it reaches
ReplayReach(tab, list, path) ==
  ReachedFrom(tab, list, ChildPaths(tab, list, {path}), MaxDepth)

\* The events hold an item with the name that has FF_DIR and is followed at
\* once by a close
OpenThenClose(ev, name) ==
  \E i \in 1..(Len(ev) - 1) :
    /\ ev[i].kind = "item" /\ ev[i].name = name /\ "DIR" \in ev[i].flags
    /\ ev[i + 1].kind = "close"

\* C31: after dir_cache_replay(E) every index entry at a path reached from
\* E by following directory children is used; a directory child without
\* an entry of its own is sent as an item followed at once by its close;
\* and the replay changes nothing in the index but used flags, which it
\* sets for reached entries only.
C31_ReplayMarks ==
  [][(last'.op = "replay" /\ last.op = "lookup") =>
       LET E == entry_list[last.ret]
           reach == ReplayReach(cache_table, entry_list, E.path)
       IN /\ cache_table' = cache_table
          /\ Len(entry_list') = Len(entry_list)
          /\ \A k \in 1..Len(entry_list) :
               /\ [entry_list'[k] EXCEPT !.used = TRUE]
                    = [entry_list[k] EXCEPT !.used = TRUE]
               /\ entry_list[k].used => entry_list'[k].used
               /\ (entry_list'[k].used /\ ~entry_list[k].used) =>
                    (entry_list[k].path \in reach
                     /\ cache_table[entry_list[k].path] = k)
          /\ \A q \in reach \cap DOMAIN cache_table :
               entry_list'[cache_table[q]].used
          /\ \A q \in {E.path} \cup (reach \cap DOMAIN cache_table) :
               \A i \in 1..Len(entry_list[cache_table[q]].children) :
                 LET c == entry_list[cache_table[q]].children[i]
                 IN ("DIR" \in c.flags
                     /\ JoinPath(q, c.name) \notin DOMAIN cache_table)
                      => OpenThenClose(out', c.name)]_vars

\* The replay of /r/a has reached the entry of /r/a/b, which the load had
\* left unused, and has marked it
C31_Witness ==
  /\ last.op = "replay" /\ last.path = PathA
  /\ PathB \in DOMAIN cache_table
  /\ PathB \in ReplayReach(cache_table, entry_list, PathA)
  /\ entry_list[cache_table[PathB]].used
  /\ Len(out) > 2

\* C11: in every state of the index, every child in the children list of
\* every entry has no children of its own, whatever nesting the loaded file
\* or the children passed to dir_cache_store had.
C11_FlatForest ==
  \A k \in 1..Len(entry_list) :
    \A i \in 1..Len(entry_list[k].children) :
      entry_list[k].children[i].children = <<>>

\* The file with the nested directory was loaded, and the store with the
\* nested child has just been made: both entries have the child b
C11_Witness ==
  /\ disk = NestedDoc
  /\ last.op = "store" /\ last.mtime = 3
  /\ Len(entry_list[last.ret].children) = 1
  /\ entry_list[last.ret].children[1].name = NameB
  /\ \E k \in 1..Len(entry_list) :
       /\ ~entry_list[k].used /\ entry_list[k].mtime = 1
       /\ Len(entry_list[k].children) = 1
       /\ entry_list[k].children[1].name = NameB
       /\ "DIR" \in entry_list[k].children[1].flags

-----------------------------------------------------------------------------
(* SpecScan: main() and process() run again and again on a tree that       *)
(* changes between the runs.  The tree is                                  *)
(*   /r  /r/a  /r/a/f  /r/a/<x>  /r/a/b  /r/a/b/g                          *)
(* where fs says what varies: the mtime of a (ma), the mtime, ino and dev  *)
(* of b (mb, ib, db), what kind of entry x is, whether g exists, whether   *)
(* b can be entered and read (b), and how often the tree was changed.      *)

NameX == <<120>>
NameCtl == <<99, 1>>

PathF == JoinPath(PathA, NameF)
PathG == JoinPath(PathB, NameG)

XKinds == {"none", "reg", "excl", "err", "hard", "lnk", "ctl"}
BKinds == {"ok", "nochdir", "noread", "partial"}

XName(cfg) == IF cfg.x = "ctl" THEN NameCtl ELSE NameX
PathX(cfg) == JoinPath(PathA, XName(cfg))

Tree(x, g, b) ==
  [mr |-> 1, ma |-> 1, da |-> 1, ia |-> 11, mb |-> 1, ib |-> 13, db |-> 1,
   x |-> x, g |-> g, b |-> b, smfs |-> FALSE, kern |-> FALSE, rr |-> "ok",
   nmut |-> 0]

\* The trees scanned; the last but one is scanned with dir_scan_smfs set
\* and has /r/a/b on another file system; in the last one readdir fails
\* after the names of the scan root were read (rr)
InitFs ==
  {Tree(x, g, "ok") : x \in XKinds, g \in BOOLEAN}
  \cup {Tree("none", TRUE, b) : b \in BKinds}
  \cup {[Tree("none", TRUE, "ok") EXCEPT !.smfs = TRUE, !.db = 2]}
  \cup {[Tree("none", TRUE, "ok") EXCEPT !.smfs = sm, !.db = 2, !.kern = TRUE] :
          sm \in BOOLEAN}
  \cup {[Tree("none", TRUE, "ok") EXCEPT !.rr = "partial"]}

\* The names dir_read returns for a directory
Listing(cfg, path) ==
  IF path = PathR THEN <<NameA>>
  ELSE IF path = PathA
  THEN <<NameF>> \o (IF cfg.x = "none" THEN <<>> ELSE <<XName(cfg)>>) \o <<NameB>>
  ELSE IF path = PathB /\ cfg.g THEN <<NameG>>
  ELSE <<>>

\* What lstat gives for a path of the tree
Lstat(cfg, path) ==
  IF path = PathR THEN [ok |-> TRUE, st |-> StDir(10, 1, cfg.mr)]
  ELSE IF path = PathA THEN [ok |-> TRUE, st |-> StDir(cfg.ia, cfg.da, cfg.ma)]
  ELSE IF path = PathB THEN [ok |-> TRUE, st |-> StDir(cfg.ib, cfg.db, cfg.mb)]
  ELSE IF path = PathF THEN [ok |-> TRUE, st |-> StFile]
  ELSE IF path = PathG
  THEN [ok |-> TRUE, st |-> Stat("reg", 14, cfg.db, 1, 16, 6000, 33188, 7, 1000, 100)]
  ELSE IF cfg.x = "err" THEN [ok |-> FALSE, st |-> StFile]
  ELSE IF cfg.x = "hard" THEN [ok |-> TRUE, st |-> StHard]
  ELSE IF cfg.x = "lnk" THEN [ok |-> TRUE, st |-> StLink]
  ELSE [ok |-> TRUE, st |-> Stat("reg", 17, 1, 1, 8, 3000, 33188, 6, 1000, 100)]

\* The paths that match an --exclude pattern
Excluded(cfg) == IF cfg.x = "excl" THEN {PathX(cfg)} ELSE {}

\* The item count at which input_handle(1) reports that the user quit;
\* 0: the user does not quit
AbortAt == {0, 3}

\* The number of the event for which dir_output.item returns non-zero;
\* 0: the sink accepts every event
RejectAt == {0, 2, 3}

\* The state the scanner threads through its recursion: the index, the
\* events sent to the sink, and what it did (system calls, children added to
\* walk contexts, cache hits, directories stored, calls of input_handle).
ScanState(tab, list) ==
  [tab |-> tab, list |-> list, ev |-> <<>>, sys |-> {}, adds |-> {},
   hits |-> <<>>, stores |-> <<>>, n |-> 0, overflow |-> FALSE]

Emit(s, e) == [s EXCEPT !.ev = Append(@, e)]

\* dir_output.item(...) where its result is looked at: fail says that the
\* sink has rejected the event
Send(E, s, e) ==
  [s |-> Emit(s, e), fail |-> E.reject # 0 /\ Len(s.ev) + 1 = E.reject]

\* ... || dir_output.item(NULL, 0, NULL, 0)
SendClose(E, r) ==
  IF r.fail THEN r ELSE Send(E, r.s, CloseEvent("walk"))
Sys(s, op, path) == [s EXCEPT !.sys = @ \cup {[op |-> op, path |-> path]}]

\* return fail || input_handle(1)
Handled(E, s, ctx, fail) ==
  IF fail THEN [s |-> s, ctx |-> ctx, fail |-> TRUE]
  ELSE [s |-> [s EXCEPT !.n = @ + 1], ctx |-> ctx, fail |-> (s.n + 1 = E.abort)]

\* if (parent_ctx && cache_file) walk_context_add_child(parent_ctx, name)
\* A scanner that collects only the children it would descend into or size
AddChild_clean(s, ctx, hasctx, dirpath, name, buf) ==
  IF hasctx /\ buf.flags \cap SkipFlags = {}
  THEN [s |-> [s EXCEPT !.adds = @ \cup {[parent |-> dirpath,
                                          child |-> walk_context_add_child(name, buf)]}],
        ctx |-> Append(ctx, walk_context_add_child(name, buf))]
  ELSE [s |-> s, ctx |-> ctx]

AddChild(s, ctx, hasctx, dirpath, name, buf) ==
  IF hasctx
  THEN [s |-> [s EXCEPT !.adds = @ \cup {[parent |-> dirpath,
                                          child |-> walk_context_add_child(name, buf)]}],
        ctx |-> Append(ctx, walk_context_add_child(name, buf))]
  ELSE [s |-> s, ctx |-> ctx]

CacheHit_nomark(buf, cached) ==
  [buf EXCEPT !.size = cached.size, !.asize = cached.asize, !.items = cached.items]

\* The scratch buffer after a cache hit
CacheHit(buf, cached) ==
  [buf EXCEPT !.flags = @ \cup {"CACHED"}, !.size = cached.size,
              !.asize = cached.asize, !.items = cached.items]

RECURSIVE dir_scan_item_ctx(_, _, _, _, _, _)
RECURSIVE dir_scan_recurse(_, _, _, _, _)
RECURSIVE dir_walk_ctx(_, _, _, _, _, _, _)

\* The loop of dir_walk_ctx after one name: it stops at the first failure.
walk_next(E, hasctx, dirpath, names, i, r) ==
  IF r.fail THEN r
  ELSE dir_walk_ctx(E, r.s, r.ctx, hasctx, dirpath, names, i + 1)

\* ctx is the walk context the names are collected in (hasctx: whether
\* there is one)
dir_walk_ctx(E, s, ctx, hasctx, dirpath, names, i) ==
  IF i > Len(names) THEN [s |-> s, ctx |-> ctx, fail |-> FALSE]
  ELSE walk_next(E, hasctx, dirpath, names, i,
                 dir_scan_item_ctx(E, s, ctx, hasctx, dirpath, names[i]))

\* dir_scan_recurse when chdir or dir_read failed: FF_ERR, the item and its
\* close are sent, nothing is stored
recurse_error(E, s, buf, name) ==
  SendClose(E,
    Send(E, s, ItemEvent(BufDir([buf EXCEPT !.flags = @ \cup {"ERR"}]), name,
                         buf.ext, buf.nlink, "walk")))

\* dir_scan_recurse after dir_cache_store
recurse_stored(E, path, s, st) ==
  Send(E, [s EXCEPT !.tab = st.tab, !.list = st.list,
                    !.stores = Append(@, path)],
       CloseEvent("walk"))

\* dir_scan_recurse after the walk of the children: the directory is stored
\* with the values saved before the walk, unless the walk failed
recurse_walked(E, buf, path, w) ==
  IF w.fail THEN [s |-> Emit(w.s, CloseEvent("walk")), fail |-> TRUE]
  ELSE recurse_stored(E, path, w.s,
         dir_cache_store(w.s.tab, w.s.list, path, BufDir(buf),
                         IF "EXT" \in buf.flags THEN buf.ext ELSE NoExt, w.ctx))

\* dir_scan_recurse after the item of the directory was sent (r)
recurse_opened(E, buf, path, r) ==
  IF r.fail THEN r
  ELSE recurse_walked(E, buf, path,
         dir_walk_ctx(E, r.s, <<>>, TRUE, path, Listing(E.fs, path), 1))

\* dir_scan_recurse after dir_read: buf has FF_ERR when readdir failed
\* halfway
recurse_read(E, s, buf, path, name) ==
  recurse_opened(E, buf, path,
    Send(E, s, ItemEvent(BufDir(buf), name, buf.ext, buf.nlink, "walk")))

\* buf is the scratch buffer of the directory, path its dir_curpath
dir_scan_recurse(E, s, buf, path, name) ==
  IF path = PathB /\ E.fs.b = "nochdir"
  THEN recurse_error(E, Sys(s, "chdir", path), buf, name)
  ELSE IF path = PathB /\ E.fs.b = "noread"
  THEN recurse_error(E, Sys(Sys(s, "chdir", path), "opendir", path), buf, name)
  ELSE recurse_read(E, Sys(Sys(s, "chdir", path), "opendir", path),
         IF path = PathB /\ E.fs.b = "partial"
         THEN [buf EXCEPT !.flags = @ \cup {"ERR"}] ELSE buf,
         path, name)

Clean(buf) == "DIR" \in buf.flags /\ buf.flags \cap SkipFlags = {}

\* dir_scan_item_ctx after dir_scan_recurse, or after the item was sent
item_recursed(E, ctx, r) == Handled(E, r.s, ctx, r.fail)

\* dir_scan_item_ctx, "Recurse into the dir or output the item"; a is the
\* scan state and the walk context after the item was added to the context
item_emit(E, a, name, path, buf) ==
  IF Clean(buf)
  THEN item_recursed(E, a.ctx, dir_scan_recurse(E, a.s, buf, path, name))
  ELSE IF "DIR" \in buf.flags
  THEN item_recursed(E, a.ctx,
         SendClose(E, Send(E, a.s, ItemEvent(BufDir(buf), name, buf.ext, 0, "walk"))))
  ELSE item_recursed(E, a.ctx,
         Send(E, a.s, ItemEvent(BufDir(buf), name, buf.ext, buf.nlink, "walk")))

\* dir_scan_item_ctx when the cache was not consulted or missed
item_out(E, s, ctx, hasctx, dirpath, name, path, buf) ==
  item_emit(E, AddChild(s, ctx, hasctx, dirpath, name, buf), name, path, buf)

\* dir_scan_item_ctx on a cache hit, after the replay rp: the sink has got
\* the open event, the replayed events and the close event
item_replayed(E, a, dirpath, name, path, buf, rp) ==
  Handled(E,
    [a.s EXCEPT
       !.list = rp.list,
       !.ev = @ \o <<ItemEvent(BufDir(buf), name,
                               IF "EXT" \in buf.flags THEN buf.ext ELSE NoExt,
                               buf.nlink, "hit")>>
                \o rp.ev \o <<CloseEvent("hit")>>,
       !.overflow = @ \/ rp.overflow,
       !.hits = Append(@, [path |-> path, parent |-> dirpath, name |-> name,
                           open |-> Len(a.s.ev) + 1,
                           close |-> Len(a.s.ev) + Len(rp.ev) + 2,
                           replayed |-> rp.ev])],
    a.ctx, FALSE)

\* dir_scan_item_ctx on a cache hit: a is the scan state and the walk
\* context after the item was added to the context, k the entry
item_hit(E, a, dirpath, name, path, buf, k) ==
  item_replayed(E, a, dirpath, name, path, buf,
                dir_cache_replay(a.s.tab, a.s.list, k))

\* A scanner that walks every directory it visits, whatever the lookup says
item_looked_up_miss(E, s, ctx, hasctx, dirpath, name, path, buf, lk) ==
  item_out(E, s, ctx, hasctx, dirpath, name, path, buf)

\* dir_scan_item_ctx after dir_cache_lookup returned lk
item_looked_up(E, s, ctx, hasctx, dirpath, name, path, buf, lk) ==
  IF lk.ret = 0 THEN item_out(E, s, ctx, hasctx, dirpath, name, path, buf)
  ELSE item_hit(E,
         AddChild([s EXCEPT !.list = lk.list], ctx, hasctx, dirpath, name,
                  CacheHit(buf, lk.list[lk.ret])),
         dirpath, name, path, CacheHit(buf, lk.list[lk.ret]), lk.ret)

\* dir_scan_item_ctx, "Cache lookup for directories"
item_lookup(E, s, ctx, hasctx, dirpath, name, path, buf) ==
  IF Clean(buf)
  THEN item_looked_up(E, s, ctx, hasctx, dirpath, name, path, buf,
         dir_cache_lookup(s.tab, s.list, path,
                          IF "EXT" \in buf.flags THEN buf.ext.mtime ELSE 0,
                          buf.dev, buf.ino))
  ELSE item_out(E, s, ctx, hasctx, dirpath, name, path, buf)

\* exclude_kernfs is set and statfs says that the directory is on a kernel
\* pseudo file system: in the trees with kern that is /r/a/b, which is on a
\* device of its own
KernBuf(cfg, path) ==
  IF cfg.kern /\ path = PathB /\ Lstat(cfg, path).st.type = "dir"
  THEN [ZeroBuf EXCEPT !.flags = @ \cup {"KERNFS"}] ELSE ZeroBuf

\* dir_scan_item_ctx from exclude_match to stat_to_dir; path is dir_curpath
item_stat(E, s, ctx, hasctx, dirpath, name, path) ==
  IF path \in Excluded(E.fs)
  THEN item_lookup(E, s, ctx, hasctx, dirpath, name, path,
                   [ZeroBuf EXCEPT !.flags = @ \cup {"EXL"}])
  ELSE IF ~Lstat(E.fs, path).ok
  THEN item_lookup(E, Sys(s, "lstat", path), ctx, hasctx, dirpath, name, path,
                   [ZeroBuf EXCEPT !.flags = @ \cup {"ERR"}])
  ELSE item_lookup(E, Sys(s, "lstat", path), ctx, hasctx, dirpath, name, path,
                   stat_to_dir(KernBuf(E.fs, path), Lstat(E.fs, path).st,
                               E.fs.smfs, E.curdev))

\* One name of the directory dirpath.  ctx is the walk context of that
\* directory (hasctx: whether there is one).
dir_scan_item_ctx(E, s, ctx, hasctx, dirpath, name) ==
  item_stat(E, s, ctx, hasctx, dirpath, name, JoinPath(dirpath, name))

process_walked_noclose(E, w) == [s |-> w.s, fail |-> w.fail]

\* process() after the walk of the root's names
process_walked(E, w) ==
  IF w.fail THEN [s |-> w.s, fail |-> TRUE]
  ELSE Send(E, w.s, CloseEvent("walk"))

\* A scanner that walks the names of the root with a walk context
process_sent_ctx(E, r) ==
  IF r.fail \/ E.fs.rr = "partial" THEN [s |-> r.s, fail |-> TRUE]
  ELSE process_walked(E,
         dir_walk_ctx(E, r.s, <<>>, TRUE, PathR, Listing(E.fs, PathR), 1))

\* process() after the item of the root was sent (r): fail is set already
\* when dir_read has set it, and then the names are not walked
process_sent(E, r) ==
  IF r.fail \/ E.fs.rr = "partial" THEN [s |-> r.s, fail |-> TRUE]
  ELSE process_walked(E,
         dir_walk_ctx(E, r.s, <<>>, FALSE, PathR, Listing(E.fs, PathR), 1))

\* process() from stat_to_dir on: buf is the scratch buffer of the root
process_root(E, tab, list, buf) ==
  process_sent(E,
    Send(E, Sys(Sys(Sys(ScanState(tab, list), "chdir", PathR), "lstat", PathR),
                "opendir", PathR),
         ItemEvent(BufDir(buf), PathR, buf.ext, buf.nlink, "walk")))

\* process() up to the save: the root is stat'ed, read and sent to the
\* sink, and its names are walked without a walk context.
process(cfg, abort, reject, tab, list) ==
  process_root([fs |-> cfg, abort |-> abort, reject |-> reject,
                curdev |-> Lstat(cfg, PathR).st.dev],
               tab, list,
               stat_to_dir([ZeroBuf EXCEPT !.flags =
                              IF cfg.rr = "partial" THEN {"ERR"} ELSE {}],
                           Lstat(cfg, PathR).st, FALSE,
                           Lstat(cfg, PathR).st.dev))

\* dir_cache_save: the file afterwards
dir_cache_save(tab, list, doc, lock_ok, order) ==
  IF lock_ok THEN save_document(tab, list, order) ELSE doc

UsedEntries(tab, list) == {e \in IndexEntries(tab, list) : e.used}

InitScan ==
  /\ StrIdle
  /\ LockIdle
  /\ SaveIdle
  /\ cache_table = EmptyTable
  /\ entry_list = <<>>
  /\ disk = NoFile
  /\ pc = "start"
  /\ last = NoCall
  /\ out = <<>>
  /\ saved = NotSaved
  /\ fs \in InitFs
  /\ runs = <<>>

\* process(): the walk, and when it did not fail dir_cache_save and
\* dir_cache_destroy
Process ==
  /\ pc = "scan"
  /\ Len(runs) < MaxRuns
  /\ \E abort \in AbortAt, reject \in RejectAt, lock_ok \in BOOLEAN :
       \E p \in {process(fs, IF reject = 0 THEN abort ELSE 0, reject,
                          cache_table, entry_list)} :
          \E order \in BucketOrders(p.s.tab) :
            LET doc == IF p.fail THEN disk
                       ELSE dir_cache_save(p.s.tab, p.s.list, disk, lock_ok, order)
            IN /\ disk' = doc
               /\ cache_table' = IF p.fail THEN p.s.tab ELSE EmptyTable
               /\ entry_list' = IF p.fail THEN p.s.list ELSE <<>>
               /\ runs' = Append(runs,
                            [fs |-> fs, ok |-> ~p.fail,
                             abort |-> IF reject = 0 THEN abort ELSE 0,
                             reject |-> reject,
                             loaded |-> last.op = "load" /\ last.ino = 1 /\ last.ret = 0,
                             parse_err |-> last.op = "load" /\ last.ret = -1,
                             saved |-> ~p.fail /\ lock_ok,
                             ev |-> p.s.ev, sys |-> p.s.sys, adds |-> p.s.adds,
                             hits |-> p.s.hits, stores |-> p.s.stores,
                             overflow |-> p.s.overflow,
                             index |-> UsedEntries(p.s.tab, p.s.list)])
  /\ pc' = "start"
  /\ last' = Call("process", PathR, 0, 0, 0, 0)
  /\ UNCHANGED <<out, saved, fs>>
  /\ UNCHANGED <<strVars, lockVars, saveVars>>

\* Between two runs of the same process or of two: the mtime of /r or one
\* of mtime, dev, ino of /r/a or /r/a/b changes
Mutate ==
  /\ pc = "start"
  /\ 0 < Len(runs) /\ Len(runs) < MaxRuns
  /\ fs.nmut < MaxMut
  /\ \E f \in {"mr", "ma", "da", "ia", "mb", "db", "ib"} :
       fs' = [fs EXCEPT ![f] = @ + 1, !.nmut = @ + 1]
  /\ UNCHANGED <<indexVars, strVars, lockVars, saveVars, runs>>

\* Between two runs: g is created in or removed from /r/a/b, which changes
\* the mtime of /r/a/b
ToggleG ==
  /\ pc = "start"
  /\ 0 < Len(runs) /\ Len(runs) < MaxRuns
  /\ fs.nmut < MaxMut
  /\ fs' = [fs EXCEPT !.g = ~@, !.mb = @ + 1, !.nmut = @ + 1]
  /\ UNCHANGED <<indexVars, strVars, lockVars, saveVars, runs>>

NextScan == CacheInit \/ Load \/ Process \/ Mutate \/ ToggleG

SpecScan == InitScan /\ [][NextScan]_vars

-----------------------------------------------------------------------------
(* Claims on the scanner *)

Triple(cfg, path) ==
  LET st == Lstat(cfg, path).st IN <<st.mtime, st.dev, st.ino>>

EntryOf(index, path) == {e \in index : e.path = path}

Names(children) == [i \in 1..Len(children) |-> children[i].name]

Did(run, op, path) == [op |-> op, path |-> path] \in run.sys

\* path lies below the directory dir
Below(dir, path) ==
  /\ Len(path) > Len(dir) + 1
  /\ SubSeq(path, 1, Len(dir)) = dir
  /\ path[Len(dir) + 1] = SLASH

\* A fresh walk of the directory: it is entered, read, every name in it is
\* lstat'ed, and it is stored
FreshWalk(run, path) ==
  /\ Did(run, "chdir", path) /\ Did(run, "opendir", path)
  /\ \A i \in 1..Len(Listing(run.fs, path)) :
       LET child == JoinPath(path, Listing(run.fs, path)[i])
       IN child \in Excluded(run.fs) \/ Did(run, "lstat", child)
  /\ \E i \in 1..Len(run.stores) : run.stores[i] = path

\* D was cached by run r1 with a triple that is not its triple when r2 runs
Changed(r1, r2, D) ==
  /\ r1.ok /\ r1.saved /\ r2.ok /\ r2.saved /\ r2.loaded
  /\ r2.fs.b = "ok"
  /\ \E e \in EntryOf(r1.index, D) : <<e.mtime, e.dev, e.ino>> # Triple(r2.fs, D)

\* C2: a directory whose mtime, dev or ino differs from the triple of its
\* cached entry is walked afresh by the next scan, wherever it is in the
\* tree, and the entry saved for it then has the new triple and the children
\* found by that walk.
C2_ChangedDirRewalked ==
  \A i \in 1..(Len(runs) - 1) : \A D \in {PathA, PathB} :
    Changed(runs[i], runs[i + 1], D) =>
      /\ FreshWalk(runs[i + 1], D)
      /\ \E e \in EntryOf(runs[i + 1].index, D) :
           /\ <<e.mtime, e.dev, e.ino>> = Triple(runs[i + 1].fs, D)
           /\ Names(e.children) = Listing(runs[i + 1].fs, D)

\* What the claim compares of an event
EventView(e) ==
  IF e.kind = "close" THEN [kind |-> "close"]
  ELSE [kind |-> "item", name |-> e.name, size |-> e.size, asize |-> e.asize,
        ino |-> e.ino, dev |-> e.dev, flags |-> e.flags \cap SkipFlags,
        nlink |-> e.nlink, mtime |-> e.ext.mtime, uid |-> e.ext.uid,
        gid |-> e.ext.gid, mode |-> e.ext.mode]

EventViews(ev) == [i \in 1..Len(ev) |-> EventView(ev[i])]

\* C3: two scans of a tree that has not changed in between send the same
\* item events (name, size, asize, ino, dev, error and exclusion flags, nlink,
\* extended metadata) and close events to the sink, in the same order.
C3_ReplayEqualsWalk ==
  \A i \in 1..(Len(runs) - 1) :
    (runs[i].ok /\ runs[i + 1].ok /\ runs[i].fs = runs[i + 1].fs)
      => EventViews(runs[i].ev) = EventViews(runs[i + 1].ev)

\* What every cache hit does: the directory is not entered or read, nothing
\* below it is lstat'ed, and the sink gets its open event with FF_CACHED,
\* the replay of the cached subtree, and its close event.
HitSkipsWalk(run, h) ==
  /\ ~Did(run, "chdir", h.path) /\ ~Did(run, "opendir", h.path)
  /\ \A c \in run.sys : ~Below(h.path, c.path)
  /\ h.open < h.close /\ h.close <= Len(run.ev)
  /\ LET o == run.ev[h.open]
     IN o.kind = "item" /\ o.name = h.name /\ "CACHED" \in o.flags
  /\ run.ev[h.close].kind = "close" /\ run.ev[h.close].src = "hit"
  /\ SubSeq(run.ev, h.open + 1, h.close - 1) = h.replayed
  /\ \A j \in (h.open + 1)..(h.close - 1) : run.ev[j].src = "replay"

\* The hit directory is in the child collection of its parent
HitRecorded(run, h) ==
  \E a \in run.adds :
    /\ a.parent = h.parent /\ a.child.name = h.name
    /\ "CACHED" \in a.child.flags
    /\ a.child.size = run.ev[h.open].size /\ a.child.asize = run.ev[h.open].asize

\* C4 as stated: on a cache hit for D the scanner does not enter or read D,
\* lstats nothing below D, records D in the child collection of D's parent,
\* and emits D's open event with FF_CACHED, the replay and D's close event.
C4_HitAsStated ==
  \A i \in 1..Len(runs) : \A k \in 1..Len(runs[i].hits) :
    HitSkipsWalk(runs[i], runs[i].hits[k]) /\ HitRecorded(runs[i], runs[i].hits[k])

\* C4 (amended): the same, but D is recorded in the parent's child collection
\* only when the parent has one, which the scan root does not: process()
\* walks the names of the root without a walk context.
C4_Hit ==
  \A i \in 1..Len(runs) : \A k \in 1..Len(runs[i].hits) :
    LET h == runs[i].hits[k]
    IN /\ HitSkipsWalk(runs[i], h)
       /\ h.parent # PathR => HitRecorded(runs[i], h)
       /\ h.parent = PathR => \A a \in runs[i].adds : a.parent # PathR

\* A run in which /r/a was walked afresh and /r/a/b, which has an entry
\* below it, was a cache hit whose replay sent that entry to the sink
C4_Witness ==
  \E i \in 1..Len(runs) : \E k \in 1..Len(runs[i].hits) :
    LET h == runs[i].hits[k]
    IN /\ h.path = PathB /\ h.parent = PathA
       /\ runs[i].fs.g
       /\ Len(h.replayed) > 0
       /\ Did(runs[i], "chdir", PathA)
\* The second of two scans: the first has saved its cache and the second
\* has loaded it, and between them only the mtime of the scan root /r has
\* changed; /r/a and /r/a/b with all below them are as they were
RootTouched(r1, r2) ==
  /\ r1.ok /\ r1.saved /\ r2.ok /\ r2.loaded
  /\ r1.fs.b = "ok" /\ r1.fs.g
  /\ r2.fs = [r1.fs EXCEPT !.mr = @ + 1, !.nmut = @ + 1]
  /\ EntryOf(r1.index, PathA) # {} /\ EntryOf(r1.index, PathB) # {}

\* The scan root was read afresh: entered, opened, and its names lstat'ed
RootWalked(run) ==
  /\ Did(run, "chdir", PathR) /\ Did(run, "opendir", PathR)
  /\ Did(run, "lstat", PathA)
  /\ \A k \in 1..Len(run.hits) : run.hits[k].path # PathR

\* The run has a lookup hit for the directory
HitOn(run, path) == \E k \in 1..Len(run.hits) : run.hits[k].path = path

\* C22 as stated: after a first scan of /r with /r/a/b below it, a second
\* scan with only the mtime of /r changed walks /r afresh, walks /r/a
\* afresh, and serves /r/a/b from the cache by a lookup hit.
C22_MiddleWalked ==
  \A i \in 1..(Len(runs) - 1) :
    RootTouched(runs[i], runs[i + 1]) =>
      /\ RootWalked(runs[i + 1])
      /\ FreshWalk(runs[i + 1], PathA)
      /\ HitOn(runs[i + 1], PathB)

\* C22 (amended): the second scan reads /r afresh, without a lookup; the
\* lookup of /r/a, whose triple is unchanged, hits, so /r/a is not entered
\* and nothing below it is lstat'ed; /r/a/b gets no lookup of its own: its
\* item, its children and its close are sent by the replay of /r/a.
C22_MiddleServed ==
  \A i \in 1..(Len(runs) - 1) :
    RootTouched(runs[i], runs[i + 1]) =>
      /\ RootWalked(runs[i + 1])
      /\ runs[i + 1].ev[1].ext.mtime = runs[i].ev[1].ext.mtime + 1
      /\ ~HitOn(runs[i + 1], PathB)
      /\ ~Did(runs[i + 1], "lstat", PathB) /\ ~Did(runs[i + 1], "chdir", PathB)
      /\ \E k \in 1..Len(runs[i + 1].hits) :
           LET h == runs[i + 1].hits[k]
           IN /\ h.path = PathA
              /\ HitSkipsWalk(runs[i + 1], h)
              /\ \E j \in 1..(Len(h.replayed) - 2) :
                   /\ h.replayed[j].kind = "item" /\ h.replayed[j].name = NameB
                   /\ h.replayed[j + 1].kind = "item"
                   /\ h.replayed[j + 1].name = NameG
                   /\ h.replayed[j + 2].kind = "close"

\* Two scans with the mtime of /r changed in between, the second of which
\* was served /r/a from the cache
C22_Witness ==
  \E i \in 1..(Len(runs) - 1) :
    /\ RootTouched(runs[i], runs[i + 1])
    /\ HitOn(runs[i + 1], PathA)
    /\ runs[i + 1].saved

\* At most one of FF_DIR and FF_FILE and at most one of the exclusion flags
FlagsExclusive(flags) ==
  /\ Cardinality(flags \cap {"DIR", "FILE"}) <= 1
  /\ Cardinality(flags \cap ExclFlags) <= 1

\* C32: every item the scanner sends to the sink and every child it
\* records for the cache has at most one of FF_DIR and FF_FILE and at most
\* one of FF_EXL, FF_OTHFS, FF_KERNFS, FF_FRMLNK, whatever options the scan
\* runs with.
C32_FlagsExclusive ==
  \A i \in 1..Len(runs) :
    /\ \A j \in 1..Len(runs[i].ev) :
         runs[i].ev[j].kind = "item" => FlagsExclusive(runs[i].ev[j].flags)
    /\ \A a \in runs[i].adds : FlagsExclusive(a.child.flags)

\* The run has stored the directory
Stored(run, D) == \E k \in 1..Len(run.stores) : run.stores[k] = D

\* buf_dir, buf_ext and buf_nlink for a name after exclude_match, lstat,
\* the kernfs test and stat_to_dir, before any descent
StatBuf(cfg, path) ==
  IF path \in Excluded(cfg) THEN [ZeroBuf EXCEPT !.flags = @ \cup {"EXL"}]
  ELSE IF ~Lstat(cfg, path).ok THEN [ZeroBuf EXCEPT !.flags = @ \cup {"ERR"}]
  ELSE stat_to_dir(KernBuf(cfg, path), Lstat(cfg, path).st, cfg.smfs,
                   Lstat(cfg, PathR).st.dev)

\* c is the record of the name as the scanner had it when it reached the
\* name: for a cache hit the lstat values with FF_CACHED and the sizes of
\* the open event of the hit, else the values before any descent
ChildAsVisited(run, D, name, c) ==
  IF HitOn(run, JoinPath(D, name))
  THEN \E k \in 1..Len(run.hits) :
         /\ run.hits[k].path = JoinPath(D, name)
         /\ c = walk_context_add_child(name,
                  [StatBuf(run.fs, JoinPath(D, name)) EXCEPT
                     !.flags = @ \cup {"CACHED"},
                     !.size = run.ev[run.hits[k].open].size,
                     !.asize = run.ev[run.hits[k].open].asize])
  ELSE c = walk_context_add_child(name, StatBuf(run.fs, JoinPath(D, name)))

\* C33: the children passed to dir_cache_store for a freshly walked
\* directory D are one record for each name dir_read returned for D, in
\* that order, excluded, errored and cache-hit children included, each with
\* the values the scanner had before it descended into or replayed the
\* child; D is stored only when all its names were walked.
C33_StoredChildren ==
  \A i \in 1..Len(runs) : \A D \in {PathA, PathB} :
    Stored(runs[i], D) =>
      \E e \in EntryOf(runs[i].index, D) :
        /\ Len(e.children) = Len(Listing(runs[i].fs, D))
        /\ \A j \in 1..Len(e.children) :
             ChildAsVisited(runs[i], D, Listing(runs[i].fs, D)[j], e.children[j])

\* /r/a was walked and stored in a run in which its entry x was excluded or
\* could not be lstat'ed and its directory b was a cache hit
C33_Witness ==
  \E i \in 1..Len(runs) :
    /\ Stored(runs[i], PathA) /\ HitOn(runs[i], PathB)
    /\ runs[i].fs.x \in {"excl", "err"}
    /\ \E e \in EntryOf(runs[i].index, PathA) : Len(e.children) = 3

\* The directories below D for which the fresh walk of the run sent an item
\* with FF_ERR
FailedDirs(run, D) ==
  {j \in 1..Len(Listing(run.fs, D)) :
     \E k \in 1..Len(run.ev) :
       /\ run.ev[k].kind = "item" /\ run.ev[k].src = "walk"
       /\ run.ev[k].name = Listing(run.fs, D)[j]
       /\ {"DIR", "ERR"} \subseteq run.ev[k].flags}

\* C38: a directory whose chdir or readdir failed during the fresh walk of
\* its parent D is recorded with FF_ERR in the children stored for D, so
\* that a replay of D sends it with the error flag of the walk.
C38_ErrorCached ==
  \A i \in 1..Len(runs) : \A D \in {PathA, PathB} :
    Stored(runs[i], D) =>
      \A e \in EntryOf(runs[i].index, D) : \A j \in FailedDirs(runs[i], D) :
        "ERR" \in e.children[j].flags


\* The totals of the subtree below a directory of the tree: the sum of
\* the field (apparent size, or blocks * S_BLKSIZE) over every entry below
\* it, and the number of those entries
RECURSIVE SubtreeTotal(_, _, _, _, _)
SubtreeTotal(cfg, path, own(_), i, fuel) ==
  IF i > Len(Listing(cfg, path)) THEN 0
  ELSE LET child == JoinPath(path, Listing(cfg, path)[i])
           st == Lstat(cfg, child).st
       IN own(st)
          + (IF st.type = "dir" /\ fuel > 0
             THEN SubtreeTotal(cfg, child, own, 1, fuel - 1) ELSE 0)
          + SubtreeTotal(cfg, path, own, i + 1, fuel)

ApparentSize(st) == st.size
DiskSize(st) == st.blocks * S_BLKSIZE
OneItem(st) == 1

\* C12: after a successful fresh walk of D the entry stored for D has size
\* and asize equal to the totals over D's subtree (with or without D's own
\* size) and items equal to the number of entries below D.
C12_StoredTotals ==
  \A i \in 1..Len(runs) : \A D \in {PathA, PathB} :
    (runs[i].ok /\ runs[i].fs.b = "ok" /\ runs[i].fs.x \in {"none", "reg"}
       /\ FreshWalk(runs[i], D)) =>
      LET cfg == runs[i].fs
          me == Lstat(cfg, D).st
          asize == SubtreeTotal(cfg, D, ApparentSize, 1, MaxDepth)
          size == SubtreeTotal(cfg, D, DiskSize, 1, MaxDepth)
          items == SubtreeTotal(cfg, D, OneItem, 1, MaxDepth)
      IN \E e \in EntryOf(runs[i].index, D) :
           /\ e.asize \in {asize, asize + ApparentSize(me)}
           /\ e.size \in {size, size + DiskSize(me)}
           /\ e.items = items


\* In the first n events: the items that are directories, the close events
Opens(ev, n) == Cardinality({j \in 1..n : ev[j].kind = "item" /\ "DIR" \in ev[j].flags})
Closes(ev, n) == Cardinality({j \in 1..n : ev[j].kind = "close"})

\* The events a walk of the tree below path sends, as far as the order
\* goes: the name of each entry in the order of the listing and, for a
\* directory, what is below it and its close (<<0>>)
RECURSIVE Skeleton(_, _, _, _)
Skeleton(cfg, path, i, fuel) ==
  IF i > Len(Listing(cfg, path)) THEN <<>>
  ELSE LET name == Listing(cfg, path)[i]
           child == JoinPath(path, name)
           isdir == /\ child \notin Excluded(cfg) /\ Lstat(cfg, child).ok
                    /\ Lstat(cfg, child).st.type = "dir"
       IN <<name>>
          \o (IF isdir
              THEN (IF /\ fuel > 0
                       /\ ~(child = PathB /\ cfg.b \in {"nochdir", "noread"})
                       /\ ~(cfg.smfs /\ Lstat(cfg, child).st.dev # Lstat(cfg, PathR).st.dev)
                       /\ ~(cfg.kern /\ child = PathB)
                    THEN Skeleton(cfg, child, 1, fuel - 1) ELSE <<>>)
                   \o <<NullName>>
              ELSE <<>>)
          \o Skeleton(cfg, path, i + 1, fuel)

EventNames(ev) ==
  [j \in 1..Len(ev) |-> IF ev[j].kind = "close" THEN NullName ELSE ev[j].name]

\* C13: in every prefix of the events of a scan there are no more close
\* events than directory items; after a successful scan there are as many;
\* and a successful scan without a loaded cache sends the root, then every
\* entry in visit order, each directory followed by what is below it and by
\* its close, then the close of the root.
C13_OpenClose ==
  \A i \in 1..Len(runs) :
    /\ \A n \in 0..Len(runs[i].ev) : Closes(runs[i].ev, n) <= Opens(runs[i].ev, n)
    /\ runs[i].ok => Closes(runs[i].ev, Len(runs[i].ev)) = Opens(runs[i].ev, Len(runs[i].ev))
    /\ (runs[i].ok /\ Len(runs[i].hits) = 0) =>
         EventNames(runs[i].ev)
           = <<PathR>> \o Skeleton(runs[i].fs, PathR, 1, MaxDepth) \o <<NullName>>

\* A first scan that sent a directory it did not enter, because it is on
\* another file system, with its close, and a second one with a cache hit
\* whose replay sent that directory
C13_Witness ==
  /\ Len(runs) = 2
  /\ runs[1].ok /\ runs[1].fs.smfs
  /\ \E j \in 1..(Len(runs[1].ev) - 1) :
       /\ runs[1].ev[j].kind = "item" /\ runs[1].ev[j].src = "walk"
       /\ {"DIR", "OTHFS"} \subseteq runs[1].ev[j].flags
       /\ runs[1].ev[j + 1].kind = "close"
  /\ runs[2].ok /\ Len(runs[2].hits) > 0
  /\ \E j \in 1..(Len(runs[2].ev) - 1) :
       /\ runs[2].ev[j].kind = "item" /\ runs[2].ev[j].src = "replay"
       /\ "DIR" \in runs[2].ev[j].flags
       /\ runs[2].ev[j + 1].kind = "close"


\* The sink has rejected an event of the run
Rejected(run) == run.reject # 0 /\ Len(run.ev) >= run.reject

\* C19: a scan in which dir_output.item has rejected an event (on the fresh
\* walk, on a cache hit or during the replay) has failed: dir_cache_save
\* was not called and final() was told of the failure.
C19_RejectionFails ==
  \A i \in 1..Len(runs) :
    Rejected(runs[i]) => (~runs[i].ok /\ ~runs[i].saved)

\* The events with the given name that a run sent from its own walk
WalkEvents(run, name) ==
  {j \in 1..Len(run.ev) :
     /\ run.ev[j].kind = "item" /\ run.ev[j].src = "walk"
     /\ run.ev[j].name = name}

\* The run walked the tree itself, the user did not quit and the sink
\* accepted every event
Undisturbed(run) == run.abort = 0 /\ run.reject = 0 /\ Len(run.hits) = 0

\* The errors of the entries: lstat of x, chdir into b, readdir of b, or
\* readdir of b or of the scan root half way
EntryErrors(cfg) ==
  (IF cfg.x = "err" THEN {XName(cfg)} ELSE {})
  \cup (IF cfg.b # "ok" THEN {NameB} ELSE {})
  \cup (IF cfg.rr # "ok" THEN {PathR} ELSE {})

\* C20: in a scan that walks the tree, every entry whose lstat, chdir or
\* readdir failed is sent with FF_ERR, every entry of the tree is sent in
\* visit order all the same, and the scan succeeds.
C20_ErrorsDoNotAbort ==
  \A i \in 1..Len(runs) :
    Undisturbed(runs[i]) =>
      /\ \A name \in EntryErrors(runs[i].fs) :
           /\ WalkEvents(runs[i], name) # {}
           /\ \A j \in WalkEvents(runs[i], name) : "ERR" \in runs[i].ev[j].flags
      /\ runs[i].ok
      /\ EventNames(runs[i].ev)
           = <<PathR>> \o Skeleton(runs[i].fs, PathR, 1, MaxDepth) \o <<NullName>>

-----------------------------------------------------------------------------
(* SpecStr: a name is written by output_string and read back by            *)
(* parse_string.                                                           *)

Bytes == 1..255

Strings(n) == UNION {[1..k -> Bytes] : k \in 1..n}

IndexIdle ==
  /\ cache_table = EmptyTable /\ entry_list = <<>> /\ disk = NoFile
  /\ pc = "idle" /\ last = NoCall /\ out = <<>> /\ saved = NotSaved

InitStr ==
  /\ IndexIdle
  /\ ScanIdle
  /\ LockIdle
  /\ SaveIdle
  /\ name_in \in Strings(MaxStrLen)
  /\ name_enc = NotYet
  /\ name_dec = [ok |-> FALSE, val |-> NotYet]

Encode ==
  /\ name_enc = NotYet
  /\ name_enc' = output_string(name_in)
  /\ UNCHANGED <<name_in, name_dec>>
  /\ UNCHANGED <<indexVars, scanVars, lockVars, saveVars>>

Decode ==
  /\ name_enc # NotYet
  /\ name_dec.val = NotYet
  /\ name_dec' = parse_string(name_enc)
  /\ UNCHANGED <<name_in, name_enc>>
  /\ UNCHANGED <<indexVars, scanVars, lockVars, saveVars>>

NextStr == Encode \/ Decode

SpecStr == InitStr /\ [][NextStr]_vars

\* C8: decoding with parse_string what output_string wrote for a name gives
\* back exactly the bytes of the name.
C8_StringRoundTrip ==
  name_dec.val # NotYet => (name_dec.ok /\ name_dec.val = name_in)

-----------------------------------------------------------------------------
(* SpecLock: processes that use the same cache path call                   *)
(* cache_lock_acquire and cache_lock_release, step by step, and may be     *)
(* killed at any point.                                                    *)

STALE_LOCK_THRESHOLD == 300
LOAD_LOCK_TIMEOUT == 5
SAVE_LOCK_TIMEOUT == 10

Procs == 1..MaxProcs

\* The calls of cache_lock_acquire the program makes: dir_cache_load and
\* dir_cache_save
Requests ==
  { [mode |-> "SHARED", timeout |-> LOAD_LOCK_TIMEOUT],
    [mode |-> "EXCLUSIVE", timeout |-> SAVE_LOCK_TIMEOUT] }

\* By how much time(NULL) advances between two steps
TickSteps == {LOAD_LOCK_TIMEOUT, STALE_LOCK_THRESHOLD + 1}

FlockOp_sh(mode) == "SH"

\* try_flock: the flock operation for a lock mode
FlockOp(mode) == IF mode = "SHARED" THEN "SH" ELSE "EX"

\* flock that grants every request, whatever the other descriptors hold
Grants_any(tab, p, op) == TRUE

\* flock(fd, op | LOCK_NB) of process p succeeds: no other open file
\* description holds a conflicting lock
Grants(tab, p, op) ==
  \A q \in DOMAIN tab \ {p} :
    tab[q] = "none" \/ (tab[q] = "SH" /\ op = "SH")

\* process_alive
process_alive(ps, pid) == pid \in DOMAIN ps /\ ps[pid].pc # "dead"

\* is_lock_stale: the body cannot be read, or names a dead process, or is
\* older than the threshold
is_lock_stale(body, ps, now) ==
  \/ body = NoBody
  \/ ~process_alive(ps, body.pid)
  \/ (body.ts > 0 /\ now - body.ts > STALE_LOCK_THRESHOLD)

LockInfo_none(pid, now) == NoBody

\* write_lock_info: "pid time(NULL)"
LockInfo(pid, now) == [pid |-> pid, ts |-> now]

\* lock_file_path is set; lock_fd = -1, lock_held = 0
FreshProc ==
  [pc |-> "idle", mode |-> "SHARED", timeout |-> 0, fd |-> FALSE,
   first |-> FALSE, start |-> 0, held |-> FALSE, cur |-> "SHARED",
   ret |-> "none", upgrade |-> FALSE]

\* return 0 with the lock: lock_fd = fd, current_mode = mode, lock_held = 1
Acquired(pr) ==
  [pr EXCEPT !.pc = "idle", !.held = TRUE, !.cur = pr.mode, !.ret = "ok"]

Failed_leak(pr) == [pr EXCEPT !.pc = "idle", !.ret = "fail"]

\* close(fd); return -1
Failed(pr) == [pr EXCEPT !.pc = "idle", !.fd = FALSE, !.ret = "fail"]

SharedHolders(ps) ==
  Cardinality({q \in DOMAIN ps : ps[q].held /\ ps[q].cur = "SHARED"})

Max(a, b) == IF a > b THEN a ELSE b

InitLock ==
  /\ IndexIdle /\ StrIdle /\ ScanIdle /\ SaveIdle
  /\ flocks = [p \in Procs |-> "none"]
  /\ procs = [p \in Procs |-> FreshProc]
  /\ lock_body = NoBody
  /\ clock = [now |-> 0, ticks |-> 0]
  /\ peak = 0
  /\ wait = NoWait

\* What a step of process p in dir_cache_lock.c changes
LockChange(p, pr, tab, body) ==
  /\ procs' = [procs EXCEPT ![p] = pr]
  /\ flocks' = tab
  /\ lock_body' = body
  /\ peak' = Max(peak, SharedHolders([procs EXCEPT ![p] = pr]))
  /\ UNCHANGED <<clock, indexVars, strVars, scanVars>>

LockEff(p, pr, tab, body) ==
  /\ LockChange(p, pr, tab, body)
  /\ UNCHANGED wait

LockStep(p, pr, tab, body) ==
  /\ LockEff(p, pr, tab, body)
  /\ UNCHANGED saveVars

Reentrant_never(pr, req) == FALSE

\* "Already holding a lock?": the held lock satisfies the request
Reentrant(pr, req) ==
  pr.held /\ (pr.cur = "EXCLUSIVE" \/ req.mode = "SHARED")

\* The variables of the call when open() has succeeded (opened) or failed;
\* upgrade notes that the call gave up a held SHARED lock by
\* cache_lock_release before the open
Entered(pr, req, opened, now) ==
  IF opened
  THEN [pr EXCEPT !.pc = "try", !.mode = req.mode, !.timeout = req.timeout,
                  !.fd = TRUE, !.first = TRUE, !.start = now,
                  !.held = FALSE, !.ret = "none", !.upgrade = pr.held]
  ELSE [pr EXCEPT !.mode = req.mode, !.timeout = req.timeout, !.fd = FALSE,
                  !.held = FALSE, !.ret = "fail", !.upgrade = pr.held]

\* An upgrade that keeps the shared lock while it tries for the exclusive one
cache_lock_acquire_keep(p, req) ==
  /\ procs[p].pc = "idle"
  /\ IF Reentrant(procs[p], req)
     THEN LockEff(p, [procs[p] EXCEPT !.ret = "ok"], flocks, lock_body)
     ELSE LockEff(p, Entered(procs[p], req, TRUE, clock.now), flocks, lock_body)

\* cache_lock_acquire up to the loop: a request the held lock satisfies
\* returns at once; otherwise a held SHARED lock is released, the lock file
\* is opened and the loop is entered

cache_lock_acquire(p, req) ==
  /\ procs[p].pc = "idle"
  /\ LET pr == procs[p]
     IN IF Reentrant(pr, req)
        THEN LockEff(p, [pr EXCEPT !.ret = "ok"], flocks, lock_body)
        ELSE LockEff(p, Entered(pr, req, TRUE, clock.now),
                     [flocks EXCEPT ![p] = "none"], lock_body)

Acquire(p) ==
  /\ \E req \in Requests : cache_lock_acquire(p, req)
  /\ UNCHANGED saveVars

\* cache_lock_acquire when open(lock_file_path) fails: return -1, after a
\* held SHARED lock was released for the upgrade
OpenFails(p) ==
  /\ procs[p].pc = "idle"
  /\ \E req \in Requests :
       /\ ~Reentrant(procs[p], req)
       /\ LockStep(p, Entered(procs[p], req, FALSE, clock.now),
                   [flocks EXCEPT ![p] = "none"], lock_body)

\* flock fails with an error other than EWOULDBLOCK: close(fd), return -1
FlockError(p) ==
  /\ procs[p].pc = "try"
  /\ LockStep(p, Failed(procs[p]), flocks, lock_body)

\* ret = try_flock(fd, mode, 0)
TryFlock(p) ==
  /\ procs[p].pc = "try"
  /\ LET pr == procs[p]
         op == FlockOp(pr.mode)
     IN IF Grants(flocks, p, op)
        THEN LockStep(p,
               IF pr.mode = "EXCLUSIVE" THEN [pr EXCEPT !.pc = "write"]
               ELSE Acquired(pr),
               [flocks EXCEPT ![p] = op], lock_body)
        ELSE LockStep(p,
               IF pr.first THEN [pr EXCEPT !.pc = "stale", !.first = FALSE]
               ELSE [pr EXCEPT !.pc = "timeout"],
               flocks, lock_body)

\* write_lock_info after the exclusive lock was granted; when it fails the
\* lock is dropped, and the body may have been truncated already
WriteInfo(p) ==
  /\ procs[p].pc = "write"
  /\ \/ LockStep(p, Acquired(procs[p]), flocks, LockInfo(p, clock.now))
     \/ \E body \in {lock_body, NoBody} :
          LockStep(p, Failed(procs[p]), [flocks EXCEPT ![p] = "none"], body)

\* if (first_attempt) ... is_lock_stale(fd)
CheckStale(p) ==
  /\ procs[p].pc = "stale"
  /\ LockStep(p,
       [procs[p] EXCEPT !.pc = IF is_lock_stale(lock_body, procs, clock.now)
                               THEN "takeover" ELSE "timeout"],
       flocks, lock_body)

\* A takeover that removes the lock of whoever holds it
Takeover_steals(p) ==
  /\ procs[p].pc = "takeover"
  /\ LockStep(p,
       [procs[p] EXCEPT !.pc = IF procs[p].mode = "EXCLUSIVE" THEN "write" ELSE "unlock"],
       [q \in Procs |-> IF q = p THEN "EX" ELSE "none"], lock_body)

\* A takeover that writes the body whatever mode was asked for
Takeover_writes(p) ==
  /\ procs[p].pc = "takeover"
  /\ IF Grants(flocks, p, "EX")
     THEN LockStep(p, [procs[p] EXCEPT !.pc = "write"],
                   [flocks EXCEPT ![p] = "EX"], lock_body)
     ELSE LockStep(p, [procs[p] EXCEPT !.pc = "timeout"], flocks, lock_body)

\* ret = try_flock(fd, CACHE_LOCK_EXCLUSIVE, 0) of the takeover
Takeover(p) ==
  /\ procs[p].pc = "takeover"
  /\ LET pr == procs[p]
     IN IF Grants(flocks, p, "EX")
        THEN LockStep(p,
               [pr EXCEPT !.pc = IF pr.mode = "EXCLUSIVE" THEN "write" ELSE "unlock"],
               [flocks EXCEPT ![p] = "EX"], lock_body)
        ELSE LockStep(p, [pr EXCEPT !.pc = "timeout"], flocks, lock_body)

\* flock(fd, LOCK_UN) of the downgrade
Unlock(p) ==
  /\ procs[p].pc = "unlock"
  /\ LockStep(p, [procs[p] EXCEPT !.pc = "downgrade"],
              [flocks EXCEPT ![p] = "none"], lock_body)

\* ret = try_flock(fd, CACHE_LOCK_SHARED, 0) of the downgrade
Downgrade(p) ==
  /\ procs[p].pc = "downgrade"
  /\ IF Grants(flocks, p, "SH")
     THEN LockStep(p, Acquired(procs[p]), [flocks EXCEPT ![p] = "SH"], lock_body)
     ELSE LockStep(p, Failed(procs[p]), flocks, lock_body)

\* The timeout check; when the time is not up, nanosleep and the next round
CheckTimeout(p) ==
  /\ procs[p].pc = "timeout"
  /\ LET pr == procs[p]
     IN IF pr.timeout = 0 \/ (pr.timeout > 0 /\ clock.now - pr.start >= pr.timeout)
        THEN LockStep(p, Failed(pr), flocks, lock_body)
        ELSE LockStep(p, [pr EXCEPT !.pc = "try"], flocks, lock_body)

\* cache_lock_release: nothing happens when no lock is held
cache_lock_release(p) ==
  IF procs[p].held
  THEN LockEff(p, [procs[p] EXCEPT !.held = FALSE, !.fd = FALSE],
               [flocks EXCEPT ![p] = "none"], lock_body)
  ELSE LockEff(p, procs[p], flocks, lock_body)

Release(p) ==
  /\ procs[p].pc = "idle" /\ procs[p].held
  /\ cache_lock_release(p)
  /\ UNCHANGED saveVars

\* The process is killed: the kernel closes its descriptors, which drops
\* its flock; the lock file stays as it is
Killed(p) ==
  /\ procs[p].pc # "dead"
  /\ LockEff(p, [FreshProc EXCEPT !.pc = "dead"],
             [flocks EXCEPT ![p] = "none"], lock_body)

Kill(p) ==
  /\ Killed(p)
  /\ UNCHANGED saveVars

Tick ==
  /\ clock.ticks < MaxTicks
  /\ \E d \in TickSteps :
       clock' = [now |-> clock.now + d, ticks |-> clock.ticks + 1]
  /\ UNCHANGED <<flocks, procs, lock_body, peak, wait, indexVars, strVars, scanVars>>
  /\ UNCHANGED saveVars

NextLock ==
  \/ \E p \in Procs :
       \/ Acquire(p) \/ TryFlock(p) \/ WriteInfo(p) \/ CheckStale(p)
       \/ Takeover(p) \/ Unlock(p) \/ Downgrade(p) \/ CheckTimeout(p)
       \/ Release(p) \/ Kill(p) \/ OpenFails(p) \/ FlockError(p)
  \/ Tick

SpecLock == InitLock /\ [][NextLock]_vars

\* Process p holds the cache lock in the given mode
Holds(p, mode) == procs[p].held /\ procs[p].cur = mode

\* C5: whenever a process holds the cache lock in EXCLUSIVE mode no other
\* process holds it in any mode; a process that holds the lock has the
\* flock of its mode.  (That several processes can hold SHARED at once is
\* shown by the witness.)
C5_Exclusion ==
  \A p \in Procs :
    /\ procs[p].held => flocks[p] = (IF procs[p].cur = "SHARED" THEN "SH" ELSE "EX")
    /\ Holds(p, "EXCLUSIVE") => \A q \in Procs \ {p} : ~procs[q].held

\* Two processes have held SHARED at the same time, and now one holds
\* EXCLUSIVE while another, whose flock was refused, is in the retry loop
C5_Witness ==
  /\ peak >= 2
  /\ \E p, q \in Procs :
       /\ p # q
       /\ Holds(p, "EXCLUSIVE")
       /\ procs[q].pc \in {"stale", "timeout"}


\* C16: when cache_lock_acquire has returned failure the process holds no
\* flock, lock_held is 0, and the descriptor the call opened is closed
\* (lock_fd is -1).
C16_NoPartialState ==
  \A p \in Procs :
    (procs[p].pc = "idle" /\ procs[p].ret = "fail") =>
      /\ flocks[p] = "none" /\ ~procs[p].held /\ ~procs[p].fd

\* A process that held SHARED asked for EXCLUSIVE and failed while another
\* one holds the lock
C16_Witness ==
  \E p, q \in Procs :
    /\ p # q
    /\ procs[p].pc = "idle" /\ procs[p].ret = "fail"
    /\ procs[p].mode = "EXCLUSIVE" /\ procs[p].cur = "SHARED"
    /\ procs[q].held

\* The step changes the body of the lock file
BodyWritten == lock_body' # lock_body

\* C27: the body of the lock file is changed only by a process that holds
\* the flock EXCLUSIVE at that moment and whose request is EXCLUSIVE; no
\* step of a call for SHARED changes it; and while a process holds the lock
\* it has taken by acquire(EXCLUSIVE), the body is its pid and the time of
\* the acquisition.
C27_BodyOwner ==
  [][/\ BodyWritten =>
          \E p \in Procs :
            /\ flocks[p] = "EX" /\ procs[p].pc = "write"
            /\ procs[p].mode = "EXCLUSIVE"
            /\ procs'[p] # procs[p]
            /\ \A q \in Procs \ {p} : flocks[q] = "none"
     /\ \A p \in Procs :
          (procs[p].mode = "SHARED" /\ procs[p].pc # "idle"
           /\ procs'[p] # procs[p]) => ~BodyWritten
     /\ \A p \in Procs :
          Holds(p, "EXCLUSIVE")' =>
            /\ lock_body'.pid = p
            /\ procs'[p].start <= lock_body'.ts /\ lock_body'.ts <= clock'.now]_vars

\* p holds the lock EXCLUSIVE, time has passed since it took it and another
\* process has found the lock taken; the body still names p and the time
\* of acquisition
C27_Witness ==
  \E p, q \in Procs :
    /\ p # q /\ Holds(p, "EXCLUSIVE")
    /\ lock_body.pid = p /\ lock_body.ts < clock.now
    /\ procs[q].pc = "timeout"

\* The step is the flock of p's takeover (the exclusive one, or the shared
\* one after the unlock) and another process holds a lock that conflicts
LostRace(p) ==
  /\ procs'[p] # procs[p]
  /\ \/ procs[p].pc = "takeover" /\ ~Grants(flocks, p, "EX")
     \/ procs[p].pc = "downgrade" /\ ~Grants(flocks, p, "SH")

\* C28: a takeover of a stale lock that does not get the flock, because
\* another process has it, goes on to the timeout check like any failed
\* attempt; this includes the shared flock after the unlock of a SHARED
\* takeover.
C28_LostRaceRetries ==
  [][\A p \in Procs :
       (LostRace(p) /\ procs'[p].pc # "dead") => procs'[p].pc = "timeout"]_vars

\* p is in a call for EXCLUSIVE it made while it held SHARED, and has not
\* got a flock in it yet
InUpgrade(p) ==
  procs[p].upgrade /\ procs[p].pc \in {"try", "stale", "takeover", "timeout"}

\* C29: a call of acquire(EXCLUSIVE, t) by a process that holds SHARED
\* gives the shared lock up before the first attempt for the exclusive
\* one: during the attempts the process has no flock, and when the call
\* fails the process holds no lock and no descriptor.
C29_UpgradeGap ==
  [][\A p \in Procs :
       /\ (procs[p].pc = "idle" /\ Holds(p, "SHARED") /\ procs'[p].pc = "try") =>
            /\ procs'[p].mode = "EXCLUSIVE" /\ procs'[p].upgrade
            /\ ~procs'[p].held /\ flocks'[p] = "none"
       /\ InUpgrade(p)' => (procs'[p].mode = "EXCLUSIVE" /\ flocks'[p] = "none")
       /\ (procs'[p].upgrade /\ procs'[p].pc = "idle" /\ procs'[p].ret = "fail") =>
            (~procs'[p].held /\ ~procs'[p].fd /\ flocks'[p] = "none")]_vars

\* p held SHARED and called for EXCLUSIVE; q has acquired EXCLUSIVE after p
\* gave up its shared lock; p's call has failed and p holds nothing
C29_Witness ==
  \E p, q \in Procs :
    /\ p # q
    /\ procs[p].upgrade /\ procs[p].pc = "idle" /\ procs[p].ret = "fail"
    /\ ~procs[p].held /\ flocks[p] = "none"
    /\ Holds(q, "EXCLUSIVE") /\ flocks[q] = "EX" /\ lock_body.pid = q

\* q is a running process that holds the cache lock
LiveHolder(q) == procs[q].held /\ procs[q].pc # "dead"

---------------------------------------------------------------------------
\* SpecWait: the retry loop of cache_lock_acquire in time.  Process B makes
\* timed calls while process A takes and drops the lock between B's calls;
\* time(NULL) is clock.now and wait.us is the part of the current second
\* that has passed.

INITIAL_RETRY_DELAY_US == 10000
MAX_RETRY_DELAY_US == 500000
USEC_PER_SEC == 1000000

ProcA == 1
ProcB == 2

WaitRequests ==
  { [mode |-> "EXCLUSIVE", timeout |-> 0], [mode |-> "SHARED", timeout |-> 1] }

\* The lock file an earlier run left behind
InitBodies ==
  {NoBody, [pid |-> ProcA, ts |-> 0], [pid |-> ProcA, ts |-> 50]}

\* Where in its second the clock stands when the program starts
InitUs == {0, 500000, 995000}

InitWait ==
  /\ IndexIdle /\ StrIdle /\ ScanIdle /\ SaveIdle
  /\ flocks = [p \in Procs |-> "none"]
  /\ procs = [p \in Procs |-> FreshProc]
  /\ lock_body \in InitBodies
  /\ clock = [now |-> 400, ticks |-> 0]
  /\ peak = 0
  /\ \E us \in InitUs : wait = [NoWait EXCEPT !.us = us]

\* B calls cache_lock_acquire: retry_delay = INITIAL_RETRY_DELAY_US
WaitAcquire ==
  /\ wait.calls < MaxCalls
  /\ procs[ProcA].pc \in {"idle", "dead"}
  /\ \E req \in WaitRequests :
       /\ procs[ProcB].pc = "idle"
       /\ \E opened \in BOOLEAN :
            LockChange(ProcB,
              IF Reentrant(procs[ProcB], req)
              THEN [procs[ProcB] EXCEPT !.ret = "ok"]
              ELSE Entered(procs[ProcB], req, opened, clock.now),
              IF Reentrant(procs[ProcB], req)
              THEN flocks ELSE [flocks EXCEPT ![ProcB] = "none"],
              lock_body)
  /\ wait' = [wait EXCEPT !.delay = INITIAL_RETRY_DELAY_US, !.slept = 0,
                          !.calls = @ + 1,
                          !.free = \A q \in Procs : flocks[q] = "none",
                          !.excl = (flocks[ProcA] = "EX" /\ procs[ProcA].held),
                          !.old = lock_body, !.timedout = FALSE]
  /\ UNCHANGED saveVars

\* The timeout check of B, then nanosleep(retry_delay) and the doubling of
\* retry_delay up to MAX_RETRY_DELAY_US
Backoff ==
  /\ procs[ProcB].pc = "timeout"
  /\ LET pr == procs[ProcB]
     IN IF pr.timeout = 0 \/ (pr.timeout > 0 /\ clock.now - pr.start >= pr.timeout)
        THEN /\ procs' = [procs EXCEPT ![ProcB] = Failed(pr)]
             /\ wait' = [wait EXCEPT !.timedout = TRUE]
             /\ UNCHANGED clock
        ELSE /\ procs' = [procs EXCEPT ![ProcB] = [pr EXCEPT !.pc = "try"]]
             /\ clock' = [clock EXCEPT
                  !.now = @ + ((wait.us + wait.delay) \div USEC_PER_SEC)]
             /\ wait' = [wait EXCEPT
                  !.us = (@ + wait.delay) % USEC_PER_SEC,
                  !.slept = @ + wait.delay,
                  !.delay = IF 2 * @ > MAX_RETRY_DELAY_US
                            THEN MAX_RETRY_DELAY_US ELSE 2 * @]
  /\ UNCHANGED <<flocks, lock_body, peak, indexVars, strVars, scanVars, saveVars>>

\* A acts between the calls of B, so the takeover of B never gets the flock
\* and B does not reach the downgrade
WaitOther ==
  /\ procs[ProcB].pc = "idle"
  /\ \/ Acquire(ProcA) \/ TryFlock(ProcA) \/ WriteInfo(ProcA)
     \/ CheckStale(ProcA) \/ Takeover(ProcA) \/ Unlock(ProcA)
     \/ Downgrade(ProcA) \/ CheckTimeout(ProcA)
     \/ Release(ProcA) \/ Kill(ProcA) \/ Tick

NextWait ==
  \/ WaitAcquire \/ Backoff \/ WaitOther
  \/ TryFlock(ProcB) \/ WriteInfo(ProcB) \/ CheckStale(ProcB)
  \/ Takeover(ProcB) \/ Release(ProcB) \/ FlockError(ProcB)

SpecWait == InitWait /\ [][NextWait]_vars

\* A call of B has returned
WaitReturned == wait.calls > 0 /\ procs[ProcB].pc = "idle"

\* C14: while A holds the lock EXCLUSIVE, B's acquire(EXCLUSIVE, 0) fails
\* without sleeping and B's acquire(SHARED, 1) fails only after about one
\* second of retrying (here: not before a second less the longest single
\* sleep has been slept); a call B makes when nobody holds the lock does
\* not time out.
C14_TimedFailure ==
  WaitReturned =>
    /\ (wait.excl /\ procs[ProcB].timeout = 0) =>
         (procs[ProcB].ret = "fail" /\ wait.slept = 0)
    /\ (wait.excl /\ procs[ProcB].timeout = 1) =>
         /\ procs[ProcB].ret = "fail"
         /\ wait.timedout => wait.slept >= USEC_PER_SEC - MAX_RETRY_DELAY_US
    /\ wait.free => ~wait.timedout

\* C15: in a call acquire(EXCLUSIVE, 0) of B that begins when the lock file
\* has a body and no process holds a flock, the first flock is granted
\* whatever the body says (unless flock itself fails with an error), and
\* unless the write of the body fails the call returns success with the
\* flock held and the body rewritten to B's pid and the current time.
C15_StaleBodyTaken ==
  [][ ( /\ wait.free /\ wait.old # NoBody
        /\ procs[ProcB].mode = "EXCLUSIVE" /\ procs[ProcB].timeout = 0
        /\ procs[ProcB].pc # "idle" /\ procs'[ProcB] # procs[ProcB] )
      => /\ procs[ProcB].pc = "try" =>
              \/ procs'[ProcB].pc = "write" /\ flocks'[ProcB] = "EX"
              \/ procs'[ProcB] = Failed(procs[ProcB]) /\ flocks'[ProcB] = "none"
         /\ procs[ProcB].pc = "write" =>
              \/ /\ procs'[ProcB].pc = "idle" /\ procs'[ProcB].ret = "ok"
                 /\ procs'[ProcB].held /\ procs'[ProcB].cur = "EXCLUSIVE"
                 /\ flocks'[ProcB] = "EX"
                 /\ lock_body' = [pid |-> ProcB, ts |-> clock'.now]
              \/ procs'[ProcB] = Failed(procs[ProcB]) /\ flocks'[ProcB] = "none"
         /\ procs[ProcB].pc \in {"try", "write"} ]_vars

\* B has taken the lock over a body that named pid 1 and was more than
\* STALE_LOCK_THRESHOLD seconds old
C15_Witness ==
  /\ WaitReturned /\ wait.free
  /\ wait.old.pid = ProcA /\ wait.old.ts > 0
  /\ procs[ProcB].start - wait.old.ts > STALE_LOCK_THRESHOLD
  /\ procs[ProcB].mode = "EXCLUSIVE" /\ procs[ProcB].timeout = 0
  /\ procs[ProcB].ret = "ok" /\ Holds(ProcB, "EXCLUSIVE")
  /\ lock_body = [pid |-> ProcB, ts |-> procs[ProcB].start]

\* The step is a call of cache_lock_acquire by B
Calls == wait'.calls = wait.calls + 1

\* The call returns 0 and leaves everything as it is
ReturnsAtOnce ==
  /\ procs'[ProcB] = [procs[ProcB] EXCEPT !.ret = "ok"]
  /\ flocks' = flocks /\ lock_body' = lock_body

\* C26: a call of cache_lock_acquire by a process that holds EXCLUSIVE, or
\* that holds SHARED and asks for SHARED, returns success at once: the
\* lock file is not opened again, and the held mode, the descriptor, the
\* flock and the body of the lock file stay as they are.  (A process that
\* holds SHARED and asks for EXCLUSIVE gives the lock up and starts anew.)
C26_Reentrant ==
  [][(Calls /\ procs[ProcB].held) =>
       /\ procs[ProcB].pc = "idle" /\ procs[ProcB].fd
       /\ flocks[ProcB] = FlockOp(procs[ProcB].cur)
       /\ procs[ProcB].cur = "EXCLUSIVE" => ReturnsAtOnce
       /\ procs[ProcB].cur = "SHARED" =>
            \/ ReturnsAtOnce
            \/ /\ procs'[ProcB].mode = "EXCLUSIVE"
               /\ ~procs'[ProcB].held /\ flocks'[ProcB] = "none"]_vars

\* B has called cache_lock_acquire a second time while it held EXCLUSIVE:
\* it still holds the lock, and the body is the one its first call wrote
C26_Witness ==
  /\ WaitReturned /\ wait.calls = 2 /\ ~wait.free
  /\ Holds(ProcB, "EXCLUSIVE") /\ procs[ProcB].ret = "ok"
  /\ wait.old = lock_body /\ lock_body.pid = ProcB

-----------------------------------------------------------------------------
(* SpecSave: processes that use the same cache path run as main() does:    *)
(* dir_cache_load, the scan, dir_cache_save; every library call is a step, *)
(* and a process may be killed between any two.                            *)

\* Names of files: the cache file, and the name mkstemp gives process p
cache_file == 0
mkstemp_target(p) == cache_file
mkstemp(p) == p

FileNames == {cache_file} \cup Procs

\* The document committed before any of the processes started
OldDoc ==
  LET r == dir_cache_store(EmptyTable, <<>>, PathA,
                           BufDir(BufOf(StDir(11, 1, 9))),
                           BufOf(StDir(11, 1, 9)).ext, ChildrenA1)
  IN save_document(r.tab, r.list, <<PathA>>)

\* The pieces dir_cache_save writes to the stream: the header, a record per
\* used entry, and the closing bracket.  A file that holds the first j of
\* them:
Pieces(doc) == Len(doc.recs) + 2
Prefix(doc, j) ==
  IF j = 0 THEN [major |-> 0, recs |-> <<>>, tail |-> "eof"]
  ELSE [major |-> doc.major,
        recs |-> SubSeq(doc.recs, 1, Min(j - 1, Len(doc.recs))),
        tail |-> IF j = Pieces(doc) THEN doc.tail ELSE "eof"]

\* rename(2), unlink(2)
rename_noop(fl, from, to) == fl
rename(fl, from, to) ==
  IF from = to THEN fl ELSE [fl EXCEPT ![to] = fl[from], ![from] = NoFile]
unlink(fl, name) == [fl EXCEPT ![name] = NoFile]

\* What the scan of process p stores: "/r/a" and "/r/a/b" as p finds them
ScanStores(p, tab, list) ==
  LET a == BufOf(StDir(11, 1, p))
      b == BufOf(StDir(13, 2, p))
      r == dir_cache_store(tab, list, PathA, BufDir(a), a.ext, ChildrenA1)
  IN dir_cache_store(r.tab, r.list, PathB, BufDir(b), b.ext,
                     <<walk_context_add_child(NameG, BufOf(StFile))>>)

FreshRun ==
  [pc |-> "start", tab |-> EmptyTable, list |-> <<>>, snap |-> NoFile,
   before |-> NoFile, doc |-> NoFile, tmp |-> cache_file, k |-> 0,
   err |-> "none"]

InitSave ==
  /\ IndexIdle /\ StrIdle /\ ScanIdle
  /\ flocks = [p \in Procs |-> "none"]
  /\ procs = [p \in Procs |-> FreshProc]
  /\ lock_body = NoBody
  /\ clock = [now |-> 0, ticks |-> 0]
  /\ peak = 0
  /\ wait = NoWait
  /\ files = [n \in FileNames |-> IF n = cache_file THEN OldDoc ELSE NoFile]
  /\ sv = [p \in Procs |-> FreshRun]
  /\ committed = NoCommit

\* The process is between two calls into dir_cache_lock.c
Returned(p) == procs[p].pc = "idle"

SaveFrame == UNCHANGED <<lockVars, indexVars, strVars, scanVars>>

\* dir_cache_load: cache_lock_acquire(CACHE_LOCK_SHARED, 5)
LoadBegin(p) ==
  /\ sv[p].pc = "start"
  /\ cache_lock_acquire(p, [mode |-> "SHARED", timeout |-> LOAD_LOCK_TIMEOUT])
  /\ sv' = [sv EXCEPT ![p].pc = "load_lock"]
  /\ UNCHANGED <<files, committed>>

\* ... has returned: without the lock the load returns 0 at once
LoadLocked(p) ==
  /\ sv[p].pc = "load_lock" /\ Returned(p)
  /\ sv' = [sv EXCEPT ![p].pc = IF procs[p].ret = "ok" THEN "fopen" ELSE "scan"]
  /\ UNCHANGED <<files, committed>>
  /\ SaveFrame

\* f = fopen(cache_file, "r"): the stream reads the file that has the name
\* now, whatever is renamed over it later
LoadOpen(p) ==
  /\ sv[p].pc = "fopen"
  /\ IF files[cache_file] = NoFile
     THEN /\ cache_lock_release(p)
          /\ sv' = [sv EXCEPT ![p].pc = "scan"]
     ELSE /\ sv' = [sv EXCEPT ![p].pc = "parse", ![p].snap = files[cache_file]]
          /\ SaveFrame
  /\ UNCHANGED <<files, committed>>

\* The header and the records are parsed, build_cache_entries for each
LoadParse(p) ==
  /\ sv[p].pc = "parse"
  /\ \E r \in {dir_cache_load(sv[p].tab, sv[p].list, sv[p].snap, TRUE)} :
       sv' = [sv EXCEPT ![p].pc = "loaded", ![p].tab = r.tab, ![p].list = r.list]
  /\ UNCHANGED <<files, committed>>
  /\ SaveFrame

\* cleanup: fclose(f); cache_lock_release()
LoadClose(p) ==
  /\ sv[p].pc = "loaded"
  /\ cache_lock_release(p)
  /\ sv' = [sv EXCEPT ![p].pc = "scan", ![p].snap = NoFile]
  /\ UNCHANGED <<files, committed>>

\* process(): the scan stores the directories it walked
Scan(p) ==
  /\ sv[p].pc = "scan"
  /\ \E r \in {ScanStores(p, sv[p].tab, sv[p].list)} :
       sv' = [sv EXCEPT ![p].pc = "save", ![p].tab = r.tab, ![p].list = r.list]
  /\ UNCHANGED <<files, committed>>
  /\ SaveFrame

\* dir_cache_save: cache_lock_acquire(CACHE_LOCK_EXCLUSIVE, 10)
SaveBegin(p) ==
  /\ sv[p].pc = "save"
  /\ cache_lock_acquire(p, [mode |-> "EXCLUSIVE", timeout |-> SAVE_LOCK_TIMEOUT])
  /\ sv' = [sv EXCEPT ![p].pc = "save_lock"]
  /\ UNCHANGED <<files, committed>>

\* ... has returned: without the lock nothing is saved.  With it, doc is
\* the document the loop over the table is going to write and before the
\* cache file as the save finds it.
SaveLocked(p) ==
  /\ sv[p].pc = "save_lock" /\ Returned(p)
  /\ IF procs[p].ret = "ok"
     THEN \E order \in BucketOrders(sv[p].tab) :
            sv' = [sv EXCEPT ![p].pc = "mkstemp",
                             ![p].before = files[cache_file],
                             ![p].doc = save_document(sv[p].tab, sv[p].list, order)]
     ELSE sv' = [sv EXCEPT ![p].pc = "done"]
  /\ UNCHANGED <<files, committed>>
  /\ SaveFrame

\* tmp_fd = mkstemp(tmp_path); f = fdopen(tmp_fd, "w")
Mkstemp(p) ==
  /\ sv[p].pc = "mkstemp"
  /\ \E name \in {mkstemp(p)} :
       /\ files' = [files EXCEPT ![name] = Prefix(sv[p].doc, 0)]
       /\ sv' = [sv EXCEPT ![p].pc = "stream", ![p].tmp = name, ![p].k = 0]
  /\ UNCHANGED committed
  /\ SaveFrame

\* fputs, output_int, write_entry: the next piece goes into the stream,
\* and stdio writes to the file whenever its buffer is full
Stream(p) ==
  /\ sv[p].pc = "stream"
  /\ sv' = [sv EXCEPT ![p].k = @ + 1,
                      ![p].pc = IF sv[p].k + 1 = Pieces(sv[p].doc)
                                THEN "fflush" ELSE "stream"]
  /\ \/ UNCHANGED files
     \/ files' = [files EXCEPT ![sv[p].tmp] = Prefix(sv[p].doc, sv[p].k + 1)]
  /\ UNCHANGED committed
  /\ SaveFrame

\* fflush(f)
Fflush(p) ==
  /\ sv[p].pc = "fflush"
  /\ sv' = [sv EXCEPT ![p].pc = "fsync"]
  /\ files' = [files EXCEPT ![sv[p].tmp] = Prefix(sv[p].doc, sv[p].k)]
  /\ UNCHANGED committed
  /\ SaveFrame

\* fsync(fileno(f))
Fsync(p) ==
  /\ sv[p].pc = "fsync"
  /\ sv' = [sv EXCEPT ![p].pc = "fclose"]
  /\ UNCHANGED <<files, committed>>
  /\ SaveFrame

\* fclose(f)
Fclose(p) ==
  /\ sv[p].pc = "fclose"
  /\ sv' = [sv EXCEPT ![p].pc = "rename"]
  /\ UNCHANGED <<files, committed>>
  /\ SaveFrame

\* rename(tmp_path, cache_file)
Rename(p) ==
  /\ sv[p].pc = "rename"
  /\ files' = rename(files, sv[p].tmp, cache_file)
  /\ committed' = [doc |-> sv[p].doc, by |-> p]
  /\ sv' = [sv EXCEPT ![p].pc = "fsync_dir"]
  /\ SaveFrame

\* fsync_dir(dir_path), whose result is not looked at
FsyncDir(p) ==
  /\ sv[p].pc = "fsync_dir"
  /\ sv' = [sv EXCEPT ![p].pc = "release"]
  /\ UNCHANGED <<files, committed>>
  /\ SaveFrame

\* free(tmp_path); cache_lock_release()
SaveRelease(p) ==
  /\ sv[p].pc = "release"
  /\ cache_lock_release(p)
  /\ sv' = [sv EXCEPT ![p].pc = "done"]
  /\ UNCHANGED <<files, committed>>

\* An error path of the save that returns without cache_lock_release
SaveError_locked(p) ==
  /\ sv[p].pc \in {"mkstemp", "fflush", "fsync", "fclose", "rename"}
  /\ LockEff(p, procs[p], flocks, lock_body)
  /\ files' = IF sv[p].pc = "mkstemp" THEN files ELSE unlink(files, sv[p].tmp)
  /\ sv' = [sv EXCEPT ![p].pc = "done"]
  /\ UNCHANGED committed

\* mkstemp, fdopen, fflush, fsync, fclose or rename fails: the temp file is
\* unlinked when there is one and the lock released
SaveError(p) ==
  /\ sv[p].pc \in {"mkstemp", "fflush", "fsync", "fclose", "rename"}
  /\ cache_lock_release(p)
  /\ files' = IF sv[p].pc = "mkstemp" THEN files ELSE unlink(files, sv[p].tmp)
  /\ sv' = [sv EXCEPT ![p].pc = "done"]
  /\ UNCHANGED committed

\* The process is killed; its files stay as they are
KillRun(p) ==
  /\ sv[p].pc \notin {"dead", "done"}
  /\ Killed(p)
  /\ sv' = [sv EXCEPT ![p].pc = "dead"]
  /\ UNCHANGED <<files, committed>>

NextSave ==
  \/ \E p \in Procs :
       \/ LoadBegin(p) \/ LoadLocked(p) \/ LoadOpen(p) \/ LoadParse(p)
       \/ LoadClose(p) \/ Scan(p) \/ SaveBegin(p) \/ SaveLocked(p)
       \/ Mkstemp(p) \/ Stream(p) \/ Fflush(p) \/ Fsync(p) \/ Fclose(p)
       \/ Rename(p) \/ FsyncDir(p) \/ SaveRelease(p) \/ SaveError(p)
       \/ KillRun(p)
       \/ TryFlock(p) \/ WriteInfo(p) \/ CheckStale(p) \/ Takeover(p)
       \/ Unlock(p) \/ Downgrade(p) \/ CheckTimeout(p)
  \/ Tick

SpecSave == InitSave /\ [][NextSave]_vars

\* Process p is inside dir_cache_save with the lock, or was killed there
InSave(p) ==
  sv[p].pc \in {"mkstemp", "stream", "fflush", "fsync", "fclose", "rename",
                "fsync_dir", "release"}

Complete(doc) == doc.major = 1 /\ doc.tail = "]"

\* C6: at every step of a process that is inside dir_cache_save, the kill
\* of the process included, the cache file afterwards holds what it held
\* when the save began or the complete document of the save; the kill
\* changes no file, so that only the temp file of the save is left over.
C6_SaveAtomic ==
  [][\A p \in Procs :
       InSave(p) =>
         /\ \/ files'[cache_file] = sv[p].before
            \/ files'[cache_file] = sv[p].doc /\ Complete(sv[p].doc)
         /\ sv'[p].pc = "dead" =>
              /\ files' = files
              /\ \A n \in FileNames \ {cache_file, sv[p].tmp} : files[n] = NoFile
                   \/ (n \in Procs /\ sv[n].pc = "dead")]_vars

\* One saver was killed after its rename, before it released the lock, and
\* then another one while streaming: the cache file holds the document of
\* the first, which is what the second found, and the temp file of the
\* second holds a part of its document
C6_Witness ==
  \E p, q \in Procs :
    /\ p # q
    /\ sv[p].pc = "dead" /\ sv[q].pc = "dead"
    /\ committed.by = q /\ files[cache_file] = committed.doc
    /\ files[q] = NoFile
    /\ sv[p].before = committed.doc
    /\ files[p] # NoFile /\ files[p].tail = "eof" /\ Len(files[p].recs) > 0

\* What a load builds of a document
IndexOf(doc) == dir_cache_load(EmptyTable, <<>>, doc, TRUE)

\* C9: a process that has built its index under the SHARED lock, after
\* the save of another process W was the last to rename its document into
\* place, has built it from that document, whole, and W does not hold the
\* lock
C9_LoadSeesSave ==
  \A p \in Procs :
    (sv[p].pc = "loaded" /\ committed.by \notin {0, p}) =>
      /\ Complete(committed.doc)
      /\ sv[p].snap = committed.doc
      /\ sv[p].tab = IndexOf(committed.doc).tab
      /\ sv[p].list = IndexOf(committed.doc).list
      /\ ~procs[committed.by].held

\* A load after the save of another process has returned: the index holds
\* the entries of that save and not those of the older document
C9_Witness ==
  \E p \in Procs :
    /\ sv[p].pc = "loaded" /\ Holds(p, "SHARED")
    /\ committed.by \notin {0, p}
    /\ sv[committed.by].pc = "done"
    /\ PathB \in DOMAIN sv[p].tab
    /\ IndexOf(OldDoc).tab # sv[p].tab


---------------------------------------------------------------------------
\* SpecErr: one process runs load, scan and save, and the library calls of
\* the save can fail: besides the failures dir_cache_save looks at
\* (SaveError), a write of the stream and the fsync of the directory.

\* The document that reaches the file when the write of piece j is lost:
\* stdio drops the bytes of a failed write and sets the error indicator
Damaged(doc, j) ==
  IF j = 1 THEN [doc EXCEPT !.major = 0]
  ELSE IF j = Pieces(doc) THEN [doc EXCEPT !.tail = "eof"]
  ELSE [doc EXCEPT !.recs = SubSeq(doc.recs, 1, j - 2)
                             \o SubSeq(doc.recs, j, Len(doc.recs))]

\* fputs, fputc or fwrite fails while the document is streamed; the result
\* is not looked at and the loop goes on
StreamFail(p) ==
  /\ sv[p].pc = "stream" /\ sv[p].err = "none"
  /\ \E d \in {Damaged(sv[p].doc, sv[p].k + 1)} :
     \E k \in {IF Pieces(d) = Pieces(sv[p].doc) THEN sv[p].k + 1 ELSE sv[p].k} :
       sv' = [sv EXCEPT ![p].doc = d, ![p].k = k, ![p].err = "stream",
                        ![p].pc = IF k = Pieces(d) THEN "fflush" ELSE "stream"]
  /\ UNCHANGED <<files, committed>>
  /\ SaveFrame

\* fsync_dir(dir_path) returns -1; the result is not looked at
FsyncDirFail(p) ==
  /\ sv[p].pc = "fsync_dir" /\ sv[p].err = "none"
  /\ sv' = [sv EXCEPT ![p].pc = "release", ![p].err = "fsync_dir"]
  /\ UNCHANGED <<files, committed>>
  /\ SaveFrame

NextErr ==
  \/ LoadBegin(ProcA) \/ LoadLocked(ProcA) \/ LoadOpen(ProcA)
  \/ LoadParse(ProcA) \/ LoadClose(ProcA) \/ Scan(ProcA)
  \/ SaveBegin(ProcA) \/ SaveLocked(ProcA) \/ Mkstemp(ProcA)
  \/ Stream(ProcA) \/ StreamFail(ProcA) \/ Fflush(ProcA) \/ Fsync(ProcA)
  \/ Fclose(ProcA) \/ Rename(ProcA) \/ FsyncDir(ProcA)
  \/ FsyncDirFail(ProcA) \/ SaveRelease(ProcA) \/ SaveError(ProcA)
  \/ TryFlock(ProcA) \/ WriteInfo(ProcA)

SpecErr == InitSave /\ [][NextErr]_vars

\* The step with which a save in which a call failed returns
FailedSaveReturns(p) ==
  /\ sv'[p].pc = "done"
  /\ \/ sv[p].pc \in {"fflush", "fsync", "fclose", "rename"}
     \/ sv[p].pc = "release" /\ sv[p].err # "none"

\* C18: when a step of the save after the creation of the temp file has
\* failed (a write of the stream, fflush, fsync, fclose, rename, the fsync
\* of the directory), the save returns with the temp file unlinked and the
\* cache file as the save found it.
C18_FailedSaveUntouched ==
  [][\A p \in Procs :
       FailedSaveReturns(p) =>
         /\ files'[sv[p].tmp] = NoFile
         /\ files'[cache_file] = sv[p].before]_vars

---------------------------------------------------------------------------
\* SpecTwo: all processes have scanned and call dir_cache_save on the same
\* cache file at the same time.

InitTwo ==
  /\ IndexIdle /\ StrIdle /\ ScanIdle
  /\ flocks = [p \in Procs |-> "none"]
  /\ procs = [p \in Procs |-> FreshProc]
  /\ lock_body = NoBody
  /\ clock = [now |-> 0, ticks |-> 0]
  /\ peak = 0
  /\ wait = NoWait
  /\ files = [n \in FileNames |-> IF n = cache_file THEN OldDoc ELSE NoFile]
  /\ sv = [p \in Procs |->
            [FreshRun EXCEPT !.pc = "save",
                             !.tab = ScanStores(p, EmptyTable, <<>>).tab,
                             !.list = ScanStores(p, EmptyTable, <<>>).list]]
  /\ committed = NoCommit

NextTwo ==
  \/ \E p \in Procs :
       \/ SaveBegin(p) \/ SaveLocked(p) \/ Mkstemp(p) \/ Stream(p)
       \/ Fflush(p) \/ Fsync(p) \/ Fclose(p) \/ Rename(p) \/ FsyncDir(p)
       \/ SaveRelease(p) \/ SaveError(p)
       \/ TryFlock(p) \/ WriteInfo(p) \/ CheckStale(p) \/ Takeover(p)
       \/ CheckTimeout(p)
  \/ Tick

SpecTwo == InitTwo /\ [][NextTwo]_vars

\* The step is the rename of process q
Renames(q) == sv[q].pc = "rename" /\ sv'[q].pc = "fsync_dir"

\* The save of q did not get the lock at its first attempt: another save
\* had it
Contended(q) == ~procs[q].first

Accepted(doc) == doc # NoFile /\ IndexOf(doc).ret = 0

---------------------------------------------------------------------------
\* SpecBroken: scans of a tree between which the cache file is damaged, so
\* that the dir_cache_load of the next run ends in a parse error.

\* A record parse_item rejects: its dev is a string
BadRecord == [dir |-> TRUE, info |-> <<StrField("dev", <<>>)>>, sub |-> <<>>]

\* The document with a parse error after its first j records: a record
\* that does not parse, or the end of the file
BrokenAfter(doc, j) ==
  {[doc EXCEPT !.recs = Append(SubSeq(doc.recs, 1, j), BadRecord)],
   [doc EXCEPT !.recs = SubSeq(doc.recs, 1, j), !.tail = "eof"]}

InitBroken ==
  /\ StrIdle /\ LockIdle /\ SaveIdle
  /\ cache_table = EmptyTable
  /\ entry_list = <<>>
  /\ disk = NoFile
  /\ pc = "start"
  /\ last = NoCall
  /\ out = <<>>
  /\ saved = NotSaved
  /\ fs \in {Tree("none", TRUE, "ok"), Tree("reg", FALSE, "ok")}
  /\ runs = <<>>

\* Between two runs the cache file is damaged at some position
Corrupt ==
  /\ pc = "start"
  /\ 0 < Len(runs) /\ Len(runs) < MaxRuns
  /\ Accepted(disk)
  /\ \E j \in 0..Len(disk.recs) : disk' \in BrokenAfter(disk, j)
  /\ UNCHANGED <<cache_table, entry_list, pc, last, out, saved>>
  /\ UNCHANGED <<strVars, scanVars, lockVars, saveVars>>

NextBroken == CacheInit \/ Load \/ Process \/ Corrupt

SpecBroken == InitBroken /\ [][NextBroken]_vars

\* C23: after dir_cache_load has failed with a parse error the scan of that
\* run gets no lookup hit and no event from a replay, and every entry it
\* saves was stored by a walk of that run, not decoded from the file.
C23_BrokenCacheUnused ==
  \A i \in 1..Len(runs) :
    runs[i].parse_err =>
      /\ runs[i].hits = <<>>
      /\ \A j \in 1..Len(runs[i].ev) : runs[i].ev[j].src = "walk"
      /\ \A e \in runs[i].index :
           \E k \in 1..Len(runs[i].stores) : runs[i].stores[k] = e.path

---------------------------------------------------------------------------
\* SpecLive: process A holds its lock for ever (or holds none), and B makes
\* one call of cache_lock_acquire.  The steps of B's call are taken fairly:
\* B is a running process, every flock of the loop is non-blocking and
\* nanosleep returns after the delay.

\* Seconds after which the model stops counting time
Horizon == 15

LiveRequests ==
  { [mode |-> "EXCLUSIVE", timeout |-> 0], [mode |-> "SHARED", timeout |-> 1],
    [mode |-> "SHARED", timeout |-> LOAD_LOCK_TIMEOUT],
    [mode |-> "EXCLUSIVE", timeout |-> SAVE_LOCK_TIMEOUT],
    [mode |-> "SHARED", timeout |-> -1], [mode |-> "EXCLUSIVE", timeout |-> -1] }

\* What A holds
Holder(op) ==
  IF op = "none" THEN FreshProc
  ELSE [FreshProc EXCEPT !.fd = TRUE, !.held = TRUE, !.ret = "ok",
                         !.mode = IF op = "EX" THEN "EXCLUSIVE" ELSE "SHARED",
                         !.cur = IF op = "EX" THEN "EXCLUSIVE" ELSE "SHARED"]

InitLive ==
  /\ IndexIdle /\ StrIdle /\ ScanIdle /\ SaveIdle
  /\ \E op \in {"none", "SH", "EX"} :
       /\ flocks = [p \in Procs |-> IF p = ProcA THEN op ELSE "none"]
       /\ procs = [p \in Procs |-> IF p = ProcA THEN Holder(op) ELSE FreshProc]
  /\ lock_body \in {NoBody, [pid |-> ProcA, ts |-> 0], [pid |-> ProcA, ts |-> 399]}
  /\ clock = [now |-> 400, ticks |-> 0]
  /\ peak = 0
  /\ \E us \in InitUs : wait = [NoWait EXCEPT !.us = us]

\* The call of B
LiveAcquire ==
  /\ wait.calls = 0
  /\ procs[ProcB].pc = "idle"
  /\ \E req \in LiveRequests :
       LockChange(ProcB, Entered(procs[ProcB], req, TRUE, clock.now),
                  flocks, lock_body)
  /\ wait' = [wait EXCEPT !.delay = INITIAL_RETRY_DELAY_US, !.calls = 1,
                          !.excl = (flocks[ProcA] = "EX")]
  /\ UNCHANGED saveVars

TimedOut_never(pr, now) == pr.timeout = 0

\* "Check timeout": the call gives up
TimedOut(pr, now) ==
  pr.timeout = 0 \/ (pr.timeout > 0 /\ now - pr.start >= pr.timeout)

\* The timeout check of B, then nanosleep(retry_delay) and the doubling of
\* retry_delay; time is not counted beyond the horizon
Retry ==
  /\ procs[ProcB].pc = "timeout"
  /\ LET pr == procs[ProcB]
         now == clock.now + ((wait.us + wait.delay) \div USEC_PER_SEC)
     IN IF TimedOut(pr, clock.now)
        THEN /\ procs' = [procs EXCEPT ![ProcB] = Failed(pr)]
             /\ wait' = [wait EXCEPT !.timedout = TRUE]
             /\ UNCHANGED clock
        ELSE /\ procs' = [procs EXCEPT ![ProcB] = [pr EXCEPT !.pc = "try"]]
             /\ clock' = [clock EXCEPT
                  !.now = IF now > pr.start + Horizon THEN pr.start + Horizon
                          ELSE now]
             /\ wait' = [wait EXCEPT
                  !.us = (@ + wait.delay) % USEC_PER_SEC,
                  !.slept = IF @ + wait.delay > Horizon * USEC_PER_SEC
                            THEN Horizon * USEC_PER_SEC ELSE @ + wait.delay,
                  !.delay = IF 2 * @ > MAX_RETRY_DELAY_US
                            THEN MAX_RETRY_DELAY_US ELSE 2 * @]
  /\ UNCHANGED <<flocks, lock_body, peak, indexVars, strVars, scanVars, saveVars>>

\* The steps of the running call of B
CallStep ==
  \/ Retry \/ TryFlock(ProcB) \/ WriteInfo(ProcB) \/ CheckStale(ProcB)
  \/ Takeover(ProcB) \/ FlockError(ProcB)

NextLive == LiveAcquire \/ CallStep

SpecLive == InitLive /\ [][NextLive]_vars /\ WF_vars(CallStep)

InCall(p) == procs[p].pc # "idle"

\* C24: a call of cache_lock_acquire with timeout_sec >= 0, the 5 s of
\* dir_cache_load and the 10 s of dir_cache_save among them, returns in the
\* end, also when another process holds a conflicting lock for ever.  (A
\* call with timeout -1 is not covered: it retries for as long as the lock
\* is held.)
C24_AcquireReturns ==
  (InCall(ProcB) /\ procs[ProcB].timeout >= 0) ~> ~InCall(ProcB)

\* A call with no restriction on the timeout: does not hold
C24_AnyTimeoutReturns == InCall(ProcB) ~> ~InCall(ProcB)

\* The call of dir_cache_save has returned -1 after sleeping for nine
\* seconds or more while A held the lock EXCLUSIVE
C24_Witness ==
  /\ ~InCall(ProcB) /\ procs[ProcB].ret = "fail"
  /\ procs[ProcB].timeout = SAVE_LOCK_TIMEOUT
  /\ wait.timedout /\ wait.slept >= 9 * USEC_PER_SEC
  /\ flocks[ProcA] = "EX" /\ flocks[ProcB] = "none"

---------------------------------------------------------------------------
\* SpecCorrupt: the operations on the index, starting from cache files
\* that load accepts but no save has written.

\* A child directory with the empty name
EmptyNameDir == walk_context_add_child(<<>>, BufOf(StDir(13, 1, 1)))

\* A record for path whose only child is the directory ""
SelfRecord(path) ==
  write_entry([NewEntry(path, BufDir(BufOf(StDir(11, 1, 1))),
                        BufOf(StDir(11, 1, 1)).ext, <<>>)
                 EXCEPT !.children = <<EmptyNameDir>>])

\* /r/a with the child directory "", and /r/a/ with the child directory "":
\* the path replay builds for the child of /r/a/ is /r/a/ again
SelfDoc ==
  [major |-> 1,
   recs |-> <<SelfRecord(PathA), SelfRecord(PathA \o <<SLASH>>)>>,
   tail |-> "]"]

\* Two records for /r/a: the first with the child directory b, which has
\* the item f nested in it, the second with another mtime and no child;
\* then a top-level record that is a file, and a directory record whose
\* path is empty
DupDoc ==
  [major |-> 1,
   recs |-> NestedDoc.recs
            \o <<write_entry(NewEntry(PathA, BufDir(BufOf(StDir(11, 1, 2))),
                                      BufOf(StDir(11, 1, 2)).ext, <<>>)),
                 write_cache_child(walk_context_add_child(PathF, BufOf(StFile))),
                 SelfRecord(<<>>)>>,
   tail |-> "]"]

CorruptDocs == {SelfDoc, DupDoc}

InitCorrupt ==
  /\ StrIdle /\ ScanIdle /\ LockIdle /\ SaveIdle
  /\ cache_table = EmptyTable
  /\ entry_list = <<>>
  /\ disk \in CorruptDocs
  /\ pc = "start"
  /\ last = NoCall
  /\ out = <<>>
  /\ saved = NotSaved

SpecCorrupt == InitCorrupt /\ [][Next]_vars

\* C25: for every index dir_cache_load has built from a file it accepted,
\* the replay of any entry terminates: the recursion of
\* dir_cache_replay_recursive does not get deeper than there are entries
\* in the index (a deeper recursion is in an entry for the second time and
\* repeats for ever).
C25_ReplayTerminates ==
  (last.op = "load" /\ last.ret = 0 /\ Len(entry_list) < MaxDepth)
    => \A k \in 1..Len(entry_list) :
         ~dir_cache_replay(cache_table, entry_list, k).overflow

\* The top-level items of the document, as parse_item reads them
TopItems(doc) == [i \in 1..Len(doc.recs) |-> parse_item(doc.recs[i], 0).child]

\* The top-level records that are directories with a name
DirRecs(doc) ==
  {i \in 1..Len(doc.recs) :
     "DIR" \in TopItems(doc)[i].flags /\ TopItems(doc)[i].name # NullName}

\* The first top-level directory record with the path
FirstRec(doc, path) ==
  CHOOSE i \in DirRecs(doc) :
    /\ TopItems(doc)[i].name = path
    /\ \A j \in DirRecs(doc) : TopItems(doc)[j].name = path => i <= j

\* The entry is made from the item: its path and numbers, not used, and
\* the item's children without what is nested in them
EntryFrom(e, c) ==
  /\ e.path = c.name /\ ~e.used
  /\ e.mtime = c.mtime /\ e.dev = c.dev /\ e.ino = c.ino
  /\ e.size = c.size /\ e.asize = c.asize /\ e.items = Len(c.children)
  /\ Len(e.children) = Len(c.children)
  /\ \A i \in 1..Len(c.children) :
       e.children[i] = [c.children[i] EXCEPT !.children = <<>>]

\* C30: after dir_cache_load the index has one entry for each distinct
\* path of a top-level directory record and no other entry; the entry is
\* made from the first record with that path, with used = false and
\* shallow children; a directory nested in a record gets no entry.
C30_TopLevelOnly ==
  (pc = "scan" /\ last.op = "load" /\ last.ino = 1 /\ last.ret = 0 /\ disk # NoFile) =>
    /\ DOMAIN cache_table = {TopItems(disk)[i].name : i \in DirRecs(disk)}
    /\ Len(entry_list) = Cardinality(DOMAIN cache_table)
    /\ \A path \in DOMAIN cache_table :
         EntryFrom(entry_list[cache_table[path]],
                   TopItems(disk)[FirstRec(disk, path)])

\* The file with two records for /r/a has been loaded: the entry of /r/a
\* is the one of the first record, and /r/a/b, nested in it, has none
C30_Witness ==
  /\ pc = "scan" /\ last.op = "load" /\ last.ret = 0 /\ disk = DupDoc
  /\ DOMAIN cache_table = {PathA, <<>>}
  /\ entry_list[cache_table[PathA]].mtime = 1
  /\ Names(entry_list[cache_table[PathA]].children) = <<NameB>>
  /\ entry_list[cache_table[PathA]].children[1].children = <<>>
  /\ Len(TopItems(disk)[1].children[1].children) = 1

-----------------------------------------------------------------------------
(* Scans of one tree with different exclusion patterns *)

\* The cache file an earlier scan of the parent directory of /r has left:
\* it holds an entry for /r itself
RootDoc ==
  LET r == dir_cache_store(EmptyTable, <<>>, PathR,
                           BufDir(BufOf(StDir(10, 1, 1))),
                           BufOf(StDir(10, 1, 1)).ext,
                           <<walk_context_add_child(NameA, BufOf(StDir(11, 1, 1)))>>)
  IN save_document(r.tab, r.list, <<PathR>>)

InitExcl ==
  /\ StrIdle /\ LockIdle /\ SaveIdle
  /\ cache_table = EmptyTable
  /\ entry_list = <<>>
  /\ disk \in {NoFile, RootDoc}
  /\ pc = "start"
  /\ last = NoCall
  /\ out = <<>>
  /\ saved = NotSaved
  /\ fs \in {Tree("reg", TRUE, "ok"), Tree("excl", TRUE, "ok"),
             Tree("reg", FALSE, "ok")}
  /\ runs = <<>>

\* Between two runs the user adds or drops --exclude for the name x; the
\* tree itself stays as it is
SetExclude ==
  /\ pc = "start"
  /\ 0 < Len(runs) /\ Len(runs) < MaxRuns
  /\ fs.nmut < MaxMut
  /\ fs.x \in {"reg", "excl"}
  /\ fs' = [fs EXCEPT !.x = IF @ = "reg" THEN "excl" ELSE "reg", !.nmut = @ + 1]
  /\ UNCHANGED <<indexVars, strVars, lockVars, saveVars, runs>>

NextExcl == CacheInit \/ Load \/ Process \/ SetExclude

SpecExcl == InitExcl /\ [][NextExcl]_vars

\* The item events of the run for a path the run's patterns match
MatchedEvents(run) ==
  {j \in 1..Len(run.ev) :
     /\ run.ev[j].kind = "item"
     /\ JoinPath(PathA, run.ev[j].name) \in Excluded(run.fs)}

\* C34: every item event of a scan, from a fresh walk or from the replay of
\* a cached subtree, whose path matches an exclusion pattern of that scan
\* carries FF_EXL and has size and asize zero.
C34_ExcludedMarked ==
  \A i \in 1..Len(runs) : \A j \in MatchedEvents(runs[i]) :
    /\ "EXL" \in runs[i].ev[j].flags
    /\ runs[i].ev[j].size = 0
    /\ runs[i].ev[j].asize = 0

-----------------------------------------------------------------------------
(* Every way out of dir_cache_load and dir_cache_save *)

\* What a scan with the root /r/a stores: "/r/a/b" only, the root is not
\* stored
ScanBelow(p, tab, list) ==
  LET b == BufOf(StDir(13, 2, p))
  IN dir_cache_store(tab, list, PathB, BufDir(b), b.ext,
                     <<walk_context_add_child(NameG, BufOf(StFile))>>)

\* process(): the first process scans /r, the others scan /r/a, all with
\* the same cache file
ScanRoots(p) ==
  /\ sv[p].pc = "scan"
  /\ \E r \in {IF p = ProcA THEN ScanStores(p, sv[p].tab, sv[p].list)
                ELSE ScanBelow(p, sv[p].tab, sv[p].list)} :
       sv' = [sv EXCEPT ![p].pc = "save", ![p].tab = r.tab, ![p].list = r.list]
  /\ UNCHANGED <<files, committed>>
  /\ SaveFrame

\* The cache file is there and well-formed, missing, or cut off
InitRet ==
  /\ IndexIdle /\ StrIdle /\ ScanIdle
  /\ flocks = [p \in Procs |-> "none"]
  /\ procs = [p \in Procs |-> FreshProc]
  /\ lock_body = NoBody
  /\ clock = [now |-> 0, ticks |-> 0]
  /\ peak = 0
  /\ wait = NoWait
  /\ \E doc \in {OldDoc, NoFile, TruncDoc} :
       files = [n \in FileNames |-> IF n = cache_file THEN doc ELSE NoFile]
  /\ sv = [p \in Procs |-> FreshRun]
  /\ committed = NoCommit

NextRet ==
  \/ \E p \in Procs :
       \/ LoadBegin(p) \/ LoadLocked(p) \/ LoadOpen(p) \/ LoadParse(p)
       \/ LoadClose(p) \/ ScanRoots(p) \/ SaveBegin(p) \/ SaveLocked(p)
       \/ Mkstemp(p) \/ Stream(p) \/ Fflush(p) \/ Fsync(p) \/ Fclose(p)
       \/ Rename(p) \/ FsyncDir(p) \/ SaveRelease(p) \/ SaveError(p)
       \/ TryFlock(p) \/ WriteInfo(p) \/ CheckStale(p) \/ Takeover(p)
       \/ CheckTimeout(p)
  \/ Tick

SpecRet == InitRet /\ [][NextRet]_vars

\* dir_cache_load or dir_cache_save of p has returned
LoadReturned(p) == sv[p].pc \in {"scan", "save"}
SaveReturned(p) == sv[p].pc = "done"

\* p has no flock, no lock descriptor and no lock recorded
NoLock(p) == flocks[p] = "none" /\ ~procs[p].held /\ ~procs[p].fd

\* The step with which the save of p returns without having renamed its
\* document: no lock, or a failure of mkstemp, fflush, fsync, fclose, rename
SaveFails(p) ==
  /\ sv'[p].pc = "done"
  /\ sv[p].pc \in {"save_lock", "mkstemp", "fflush", "fsync", "fclose", "rename"}

\* C35: whenever dir_cache_load or dir_cache_save has returned, by
\* whatever path, the process holds no cache lock; a save that fails
\* returns like one that succeeds and leaves the index of the scan as it is.
C35_NoLockOnReturn ==
  /\ [](\A p \in Procs : (LoadReturned(p) \/ SaveReturned(p)) => NoLock(p))
  /\ [][\A p \in Procs :
          SaveFails(p) => /\ sv'[p].tab = sv[p].tab
                          /\ sv'[p].list = sv[p].list]_vars

\* Both ways out have happened: the load of one process timed out on the
\* lock or found a cut-off file, and a save has failed after it had the lock
C35_Witness ==
  \E p, q \in Procs :
    /\ SaveReturned(p) /\ SaveReturned(q)
    /\ files[cache_file] = TruncDoc
    /\ files[sv[p].tmp] = NoFile /\ sv[p].tmp # cache_file
    /\ procs[q].ret = "fail"

\* The replay of a hit directory has sent the directory path as one of the
\* children of the hit
Replayed(run, path) ==
  \E k \in 1..Len(run.hits) : \E j \in 1..Len(run.hits[k].replayed) :
    /\ run.hits[k].replayed[j].kind = "item"
    /\ "DIR" \in run.hits[k].replayed[j].flags
    /\ JoinPath(run.hits[k].path, run.hits[k].replayed[j].name) = path

\* The paths of the directory records of the cache file
FilePaths(doc) == {TopItems(doc)[j].name : j \in DirRecs(doc)}

\* The last run has saved and its file is the cache file
JustSaved ==
  /\ pc = "start" /\ Len(runs) > 0 /\ last.op = "process"
  /\ runs[Len(runs)].saved

\* C36: the scan root is never served from the cache and never stored: it
\* is entered and read in every scan, its names are not collected as
\* children, and after a scan that saved the cache file holds records only
\* for directories below the root that this scan stored, hit or replayed.
C36_RootFresh ==
  /\ \A i \in 1..Len(runs) :
       /\ ~HitOn(runs[i], PathR) /\ ~Stored(runs[i], PathR)
       /\ Did(runs[i], "chdir", PathR) /\ Did(runs[i], "opendir", PathR)
       /\ \A a \in runs[i].adds : a.parent # PathR
       /\ \A e \in runs[i].index :
            /\ Below(PathR, e.path)
            /\ \/ Stored(runs[i], e.path) \/ HitOn(runs[i], e.path)
               \/ Replayed(runs[i], e.path)
  /\ JustSaved => FilePaths(disk) = {e.path : e \in runs[Len(runs)].index}

\* A scan has loaded a file with an entry for the root /r and has saved:
\* the file holds /r/a and /r/a/b and no longer /r
C36_Witness ==
  /\ JustSaved /\ Len(runs) = 1 /\ runs[1].loaded
  /\ FilePaths(disk) = {PathA, PathB}

\* Which directories a set of entries is about: path, mtime, dev and ino
Keys(entries) == {<<e.path, e.mtime, e.dev, e.ino>> : e \in entries}

\* The entries of the index a load builds from the file
FileEntries(doc) == IndexEntries(IndexOf(doc).tab, IndexOf(doc).list)

\* C39: the saves of processes that have loaded the same cache file are
\* serialised by the EXCLUSIVE lock, and the file is the document of the
\* process that renamed last: the entries that process has used and no
\* others, whatever an earlier save had written (no merge).
C39_LastWriterWins ==
  /\ [](committed.by # 0 =>
          /\ files[cache_file] = committed.doc
          /\ committed.doc = sv[committed.by].doc
          /\ Keys(FileEntries(files[cache_file]))
               = Keys(UsedEntries(sv[committed.by].tab, sv[committed.by].list)))
  /\ [][/\ \A p, q \in Procs : (InSave(p) /\ InSave(q)) => p = q
        /\ \A q \in Procs :
             Renames(q) => /\ committed' = [doc |-> sv[q].doc, by |-> q]
                           /\ files'[cache_file] = sv[q].doc]_vars

\* Both have loaded the old document and saved, the scan of /r first and
\* the scan of /r/a after it: the file holds /r/a/b as the second scan
\* found it and nothing of /r/a, which the first save had written and the
\* second process had loaded from the old document
C39_Witness ==
  \E p, q \in Procs :
    /\ p # q /\ sv[p].pc = "done" /\ sv[q].pc = "done"
    /\ sv[q].before = sv[p].doc /\ sv[p].before = OldDoc
    /\ PathA \in DOMAIN sv[q].tab /\ PathA \in FilePaths(sv[p].doc)
    /\ committed.by = q
    /\ FilePaths(files[cache_file]) = {PathB}
====
